---- MODULE Spec2Model ----
(***************************************************************************)
(* Private Extension Manager: the installed-extension cache and the        *)
(* change-wait protocol of ExtensionInfoService (extensionInfo.ts) and the *)
(* paginated package search of Registry (Registry.ts).                     *)
(***************************************************************************)
EXTENDS Integers, Sequences, FiniteSets, TLC

(***************************************************************************)
(* Bounds of the model.                                                    *)
(***************************************************************************)
\* Concurrent getExtension() calls.
MaxLookups == 1
\* notifyExtensionsChanged commands in flight from the other machine.
MaxPending == 1
\* waitForExtensionChange() calls made during a run.
MaxWaits == 1
\* Packages in the catalogue of a registry server.
MaxCatalogue == 3
\* Registries findPackage() searches.
MaxRegistries == 3
\* Folders that can be part of the workspace.
MaxFolders == 1
MaxCalls == 2

(***************************************************************************)
(* Values.                                                                 *)
(***************************************************************************)
\* JavaScript's undefined.
Undefined == "undefined"
\* A packageJSON.version that is not a string.
NotAString == "<not a string>"
\* vscode.ExtensionKind
UI == "UI"
Workspace == "Workspace"

\* Extension identifiers as callers write them.
ExtensionIds == {"test.foo", "Test.Foo", "test.bar"}

toLowerCase(s) ==
    CASE s = "Test.Foo" -> "test.foo"
      [] s = "TEST.BAR" -> "test.bar"
      [] s = "Test.test" -> "test.test"
      [] OTHER -> s

\* The keys of the cache dictionary.
Keys == {toLowerCase(id) : id \in ExtensionIds}

\* packageJSON.version strings of installed extensions.
RawVersions == {"1.0.0", "2.0.0"}

\* An optional value: <<>> is undefined (or null), <<x>> is the value x.
None == <<>>
Some(x) == <<x>>

\* semver.parse(): null for a string that is no semantic version.
semverParse(raw) ==
    CASE raw = "1.0.0" -> Some(<<1, 0, 0>>)
      [] raw = "2.0.0" -> Some(<<2, 0, 0>>)
      [] OTHER -> None

\* The results a wrapped install/uninstall task can produce.
TaskResults == {"pkgA", "pkgB"}

\* If an extension takes longer than this to install/uninstall, assume VS Code
\* needs to be reloaded for it to take effect.
EXTENSION_CHANGE_TIMEOUT_MS == 2000

\* The timeout arguments of waitForExtensionChange(): the default and the
\* one the test suite passes.
Timeouts == {EXTENSION_CHANGE_TIMEOUT_MS, 100}

VARIABLES
    remoteName,        \* vscode.env.remoteName is set: a remote session
    remoteExtensionKind, \* the remote.extensionKind setting: its keys in order, with their values
    helperInstalled,   \* the remote helper answers on the other machine
    myExtensions,      \* key -> packageJSON.version on this machine, or Undefined
    otherExtensions,   \* key -> packageJSON.version on the other machine, or Undefined
    extensionCache,    \* ExtensionInfoService.extensionCache: own keys -> info | Undefined
    lookups,           \* getExtension() calls: caller -> position and locals
    pending,           \* notifyExtensionsChanged commands not yet delivered
    waits,             \* waitForExtensionChange() calls: position, timer, listener
    now,               \* the clock, in ms
    enablePagination,  \* Registry.enablePagination
    limit,             \* Registry.options.limit
    server,            \* how the registry server answers search requests
    token,             \* the CancellationToken of getPackages(): none, live or cancelled
    from,              \* findMatchingPackages(): let from
    page,              \* findMatchingPackages(): the items of page not yet yielded
    pageLength,        \* findMatchingPackages(): page.length
    requests,          \* search requests sent by this getPackages() call
    results,           \* the search results yielded so far, in order
    packages,          \* getPackages(): const packages
    warned,            \* the 'too many results' warning was shown
    pc                 \* the position of getPackages()

infoVars == <<remoteName, remoteExtensionKind, helperInstalled, myExtensions, otherExtensions,
              extensionCache, lookups, pending, waits, now>>

registryVars == <<enablePagination, limit, server, token, from, page, pageLength,
                  requests, results, packages, warned, pc>>

VARIABLES
    findRegistries,    \* findPackage(): what each registry's getPackage(name) does
    findExtensionId,   \* findPackage(): extensionId, a string of characters
    findName,          \* findPackage(): const name
    findCalls,         \* the registries whose getPackage() was called, in order
    findOutcome,       \* what findPackage() returned or threw
    findPc             \* the position of _findPackage()

VARIABLES
    userSetting,       \* the privateExtensions.registries user setting
    files,             \* workspace folder -> its extensions.private.json, if any
    watcherEvents,     \* workspace folder -> file watcher event not yet delivered
    folders,           \* RegistryProvider.folders: the FolderRegistryProviders
    isStale,           \* RegistryProvider.isStale
    userRegistries,    \* RegistryProvider.userRegistries
    notified,          \* onDidChangeRegistries fired since the last getRegistries()
    settingWrites,     \* values written to the registries setting and not yet applied
    lastCall,          \* the last call of getUserRegistries(), addUserRegistry() or
                       \* removeUserRegistry(): how many were made and what it did
    lastRegistries,    \* what the last getRegistries() returned or threw, and whether
                       \* onDidChangeRegistries had fired since the call before it
    uniqueRegistries,  \* getUniquePackages(): the registries still to ask
    uniqueResults,     \* getUniquePackages(): const results, a Map in insertion order
    uniquePc           \* the position of getUniquePackages()

VARIABLES
    metadata,          \* getPackage(): the package metadata the registry answers with
    channels,          \* the privateExtensions.channels setting
    channelWrites,     \* values written to the channels setting and not yet applied
    lastSet,           \* the last setReleaseChannel() call: its arguments
    downloadDir,       \* the destination directories that exist under getNpmDownloadDir()
    downloads,         \* downloadPackage(): each call's destination, position and
                       \* whether it extracted
    compared,          \* equals(): the two registries and what the call returned
    requested,         \* getPackage(): the arguments name and version
    getPackageOutcome, \* what getPackage() returned or threw
    packageManifest,   \* new Package(): the manifest argument
    constructorError,  \* new Package(): the error it threw, or "none"
    pkg,               \* a Package object
    installed,         \* what getExtension(pkg.extensionId) answers: the installed extension
    uninstalled,       \* the extension was uninstalled after pkg.updateState() had seen it
    updated,           \* pkg.updateState() has run
    didUpdate          \* what didExtensionUpdate(pkg) returned or threw, and whether it logged

providerVars == <<userSetting, files, watcherEvents, folders, isStale, userRegistries,
                  notified, lastRegistries, lastCall, settingWrites, uniqueRegistries, uniqueResults, uniquePc>>

findVars == <<findRegistries, findExtensionId, findName, findCalls, findOutcome, findPc>>

getPackageVars == <<metadata, channels, channelWrites, lastSet, downloadDir, downloads, compared,
                    requested, getPackageOutcome>>

versionVars == <<getPackageVars, packageManifest, constructorError, pkg, installed, uninstalled, updated, didUpdate>>

packageVars == <<findVars, providerVars, versionVars>>

VARIABLES
    updates,           \* getPackagesWithUpdates(): the packages it returned
    updateCheckInterval, \* the privateExtensions.updateCheckInterval setting, in seconds
    intervalMS,        \* UpdateChecker: this.intervalMS
    initTimeout,       \* UpdateChecker: this.initTimeout, a timer handle
    checkInterval,     \* UpdateChecker: this.checkInterval, a timer handle
    listening,         \* UpdateChecker: this.disposable holds the configuration listener
    timers,            \* the timers that are armed: handle and kind
    handles,           \* the number of timer handles given out
    checks             \* the number of automatic update checks started

checkerVars == <<updateCheckInterval, intervalMS, initTimeout, checkInterval, listening, timers,
                 handles, checks>>

VARIABLES
    firings            \* the cache as each onDidChange listener run found it, for the last change event handled

VARIABLES
    updateCommand      \* UpdateExtensionCommand.execute(): its position and whether it showed the reload prompt

VARIABLES
    updateAll,         \* updateExtensions(): its list, its position in the loop, the installs it started
    reported           \* extension id -> the version the extensions API reports, or Undefined

commandVars == <<updateCommand, updateAll, reported>>

updateVars == <<updates, checkerVars, firings, commandVars>>

vars == <<infoVars, registryVars, packageVars, updateVars>>

(***************************************************************************)
(* ExtensionInfoService: the installed-extension cache.                    *)
(***************************************************************************)
Lookups == 1..MaxLookups
Waits == 1..MaxWaits

IdleLookup == [pc |-> "idle", id |-> "", reply |-> None, result |-> None, hit |-> FALSE,
               logged |-> FALSE]

IdleWait == [pc |-> "idle", task |-> "pending", taskResult |-> "", timeout |-> 0,
             start |-> 0, timer |-> FALSE, listener |-> FALSE, released |-> FALSE,
             finishedRuns |-> 0, sawEvent |-> FALSE, result |-> ""]

\* private get myExtensionKind()
myExtensionKind == IF remoteName THEN Workspace ELSE UI

\* vscode.extensions.getExtension(extensionId) in this extension host.
vscodeGetExtension(extensionId) ==
    LET key == toLowerCase(extensionId) IN
    IF myExtensions[key] = Undefined
    THEN None
    ELSE Some([id |-> key, extensionKind |-> myExtensionKind, version |-> myExtensions[key]])

\* The remote helper's getExtension command, run in the UI extension host.
remoteHelperGetExtension(extensionId) ==
    LET key == toLowerCase(extensionId) IN
    IF otherExtensions[key] = Undefined
    THEN None
    ELSE Some([id |-> key, extensionKind |-> UI, version |-> otherExtensions[key]])

\* toExtensionInfo() throws a TypeError for these.
toExtensionInfoThrows(extension) == extension.version = NotAString

toExtensionInfo(extension) ==
    [id |-> extension.id,
     extensionKind |-> extension.extensionKind,
     version |-> IF semverParse(extension.version) = None
                 THEN <<0, 0, 0>>
                 ELSE semverParse(extension.version)[1]]

\* Mutant: a truthiness test, which misses the cached 'not installed'.
hasTruthyProperty(cache, key) == key \in DOMAIN cache /\ cache[key] # None

\* Object.prototype.hasOwnProperty.call(this.extensionCache, key)
hasOwnProperty(cache, key) == key \in DOMAIN cache

\* this.extensionCache[key] = result
cacheSet(cache, key, result) ==
    [k \in DOMAIN cache \cup {key} |-> IF k = key THEN result ELSE cache[k]]

\* The predicates handed to clearCacheIf().
clearAll(entry) == TRUE

\* Mutant: onMyExtensionChanged() keeps the entries cached as not installed.
clearMineKeepsUndefined(entry) == entry # None /\ entry[1].extensionKind = myExtensionKind

clearMine(entry) == entry = None \/ entry[1].extensionKind = myExtensionKind
clearOther(entry) == entry = None \/ entry[1].extensionKind # myExtensionKind

\* clearCacheIf(predicate): the cache without the keys whose entry the
\* predicate accepts; accepted is the set of those keys.
clearCacheIf(cache, accepted) == [k \in DOMAIN cache \ accepted |-> cache[k]]

\* A continuation of an await on an already settled promise is queued: it runs
\* before any timer, message or event is handled.
MicrotasksPending == \E c \in Lookups : lookups[c].pc = "resume"

(***************************************************************************)
(* waitForExtensionChange(): the listener and timer of each call.          *)
(***************************************************************************)
\* Mutant: the timer is left armed.
clearTimeoutForgotten(w) == w

\* global.clearTimeout(handle)
clearTimeout(w) == [w EXCEPT !.timer = FALSE]

\* event.dispose()
disposeListener(w) == [w EXCEPT !.listener = FALSE]

\* function finished() of waitForExtensionChange()
finished(w) ==
    [disposeListener(clearTimeout(w)) EXCEPT !.released = TRUE, !.finishedRuns = @ + 1]

\* this._onDidChange.fire(): every subscribed listener runs.
fire(ws) ==
    [i \in Waits |->
        LET w == IF ws[i].pc = "waiting" THEN [ws[i] EXCEPT !.sawEvent = TRUE] ELSE ws[i]
        IN IF w.listener THEN finished(w) ELSE w]

\* Mutant: onMyExtensionChanged() fires the event before it clears the cache.
onMyExtensionChangedFiresFirst ==
    /\ extensionCache' = clearCacheIf(extensionCache, {k \in DOMAIN extensionCache : clearMine(extensionCache[k])})
    /\ waits' = fire(waits)
    /\ firings' = <<extensionCache>>

\* private onMyExtensionChanged(): clearCacheIf(), then one fire(); a listener
\* runs inside fire() and finds the cache as clearCacheIf() left it.
onMyExtensionChanged ==
    /\ extensionCache' = clearCacheIf(extensionCache, {k \in DOMAIN extensionCache : clearMine(extensionCache[k])})
    /\ waits' = fire(waits)
    /\ firings' = <<extensionCache'>>

\* private onOtherExtensionChanged()
onOtherExtensionChanged ==
    /\ extensionCache' = clearCacheIf(extensionCache, {k \in DOMAIN extensionCache : clearOther(extensionCache[k])})
    /\ waits' = fire(waits)
    /\ firings' = <<extensionCache'>>

envVars == <<remoteName, remoteExtensionKind, helperInstalled>>

(***************************************************************************)
(* getExtension(extensionId)                                               *)
(***************************************************************************)
\* A caller whose previous call has returned calls getExtension(). The call up
\* to its first await: the cache lookup and, on a miss, the query of this
\* machine and the command sent to the remote helper.
getExtension(c, extensionId) ==
    /\ lookups[c].pc \in {"idle", "done"}
    /\ LET key == toLowerCase(extensionId)
           extension == vscodeGetExtension(extensionId)
           call == [IdleLookup EXCEPT !.id = extensionId]
       IN lookups' = [lookups EXCEPT ![c] =
            IF hasOwnProperty(extensionCache, key)
            THEN [call EXCEPT !.pc = "done", !.hit = TRUE, !.result = extensionCache[key]]
            ELSE IF extension # None
            THEN [call EXCEPT !.pc = "resume", !.result = Some(toExtensionInfo(extension[1]))]
            ELSE IF remoteName
            THEN [call EXCEPT !.pc = "awaitHelper"]
            ELSE [call EXCEPT !.pc = "resume"]]
    /\ UNCHANGED <<updateVars, registryVars, packageVars, envVars, myExtensions, otherExtensions, extensionCache, pending, waits, now>>

\* The remote helper handles the getExtension command on the other machine, or
\* the command fails because no helper is there.
remoteHelperAnswer(c) ==
    /\ lookups[c].pc = "awaitHelper"
    /\ ~MicrotasksPending
    /\ lookups' = [lookups EXCEPT ![c] =
            IF helperInstalled
            THEN [@ EXCEPT !.pc = "replied", !.reply = remoteHelperGetExtension(lookups[c].id)]
            ELSE [@ EXCEPT !.pc = "rejected"]]
    /\ UNCHANGED <<updateVars, registryVars, packageVars, envVars, myExtensions, otherExtensions, extensionCache, pending, waits, now>>

\* The result of getExtensionNoCache() once the helper's answer is in.
helperResult(call) ==
    IF call.pc = "replied" /\ call.reply # None /\ ~toExtensionInfoThrows(call.reply[1])
    THEN Some(toExtensionInfo(call.reply[1]))
    ELSE None

\* Mutant: the catch block logs nothing.
helperLoggedNever(call) == FALSE

\* getExtensionNoCache(): the catch block ran, which logs 'warn.remote.helper.fail'.
helperLogged(call) ==
    \/ call.pc = "rejected"
    \/ call.pc = "replied" /\ call.reply # None /\ toExtensionInfoThrows(call.reply[1])

\* private async getExtensionNoCache(extensionId), when nothing changes while it
\* runs: this machine first, then the other machine through the helper.
getExtensionNoCache(extensionId) ==
    IF vscodeGetExtension(extensionId) # None
    THEN Some(toExtensionInfo(vscodeGetExtension(extensionId)[1]))
    ELSE IF remoteName /\ helperInstalled
    THEN helperResult([IdleLookup EXCEPT !.pc = "replied",
                                         !.reply = remoteHelperGetExtension(extensionId)])
    ELSE None

\* The continuation of getExtension(): getExtensionNoCache() returned (after the
\* helper's answer arrived, when it was asked), the result is cached and returned.
getExtensionResume(c) ==
    /\ lookups[c].pc \in {"resume", "replied", "rejected"}
    /\ lookups[c].pc # "resume" => ~MicrotasksPending
    /\ LET call == lookups[c]
           result == IF call.pc = "resume" THEN call.result ELSE helperResult(call)
       IN /\ extensionCache' = cacheSet(extensionCache, toLowerCase(call.id), result)
          /\ lookups' = [lookups EXCEPT ![c] =
                [call EXCEPT !.pc = "done", !.reply = None, !.result = result,
                             !.logged = call.pc # "resume" /\ helperLogged(call)]]
    /\ UNCHANGED <<updateVars, registryVars, packageVars, envVars, myExtensions, otherExtensions, pending, waits, now>>

\* public clearCache()
clearCache ==
    /\ DOMAIN extensionCache # {}
    /\ extensionCache' = clearCacheIf(extensionCache, {k \in DOMAIN extensionCache : clearAll(extensionCache[k])})
    /\ UNCHANGED <<updateVars, registryVars, packageVars, envVars, myExtensions, otherExtensions, lookups, pending, waits, now>>

(***************************************************************************)
(* The machines and their change events.                                   *)
(***************************************************************************)
\* An extension is installed, updated, uninstalled, enabled or disabled on this
\* machine: the extension host updates its registry and fires
\* vscode.extensions.onDidChange, which runs onMyExtensionChanged().
myExtensionsChange(key, version) ==
    /\ ~MicrotasksPending
    /\ myExtensions' = [myExtensions EXCEPT ![key] = version]
    /\ onMyExtensionChanged
    /\ UNCHANGED <<updates, checkerVars, commandVars, registryVars, packageVars, envVars, otherExtensions, lookups, pending, now>>

\* The same on the other machine: the remote helper's onDidChange listener
\* sends the notifyExtensionsChanged command.
otherExtensionsChange(key, version) ==
    /\ remoteName
    /\ ~MicrotasksPending
    /\ pending < MaxPending
    /\ otherExtensions' = [otherExtensions EXCEPT ![key] = version]
    /\ pending' = IF helperInstalled THEN pending + 1 ELSE pending
    /\ UNCHANGED <<updateVars, registryVars, packageVars, envVars, myExtensions, extensionCache, lookups, waits, now>>

\* The notifyExtensionsChanged command arrives: _onDidChangeOtherExtension
\* fires, which runs onOtherExtensionChanged().
notifyExtensionsChanged ==
    /\ pending > 0
    /\ ~MicrotasksPending
    /\ pending' = pending - 1
    /\ onOtherExtensionChanged
    /\ UNCHANGED <<updates, checkerVars, commandVars, registryVars, packageVars, envVars, myExtensions, otherExtensions, lookups, now>>

(***************************************************************************)
(* waitForExtensionChange(task, timeout)                                   *)
(***************************************************************************)
\* The call up to its await: the executor of `wait` arms the timer and
\* subscribes finished() to onDidChange.
waitForExtensionChange(i, timeout) ==
    /\ waits[i].pc = "idle"
    /\ \A j \in Waits : j < i => waits[j].pc # "idle"
    /\ waits' = [waits EXCEPT ![i] =
            [IdleWait EXCEPT !.pc = "waiting", !.timeout = timeout, !.start = now,
                             !.timer = TRUE, !.listener = TRUE]]
    /\ UNCHANGED <<updateVars, registryVars, packageVars, envVars, myExtensions, otherExtensions, extensionCache, lookups, pending, now>>

\* The wrapped task settles.
taskFulfilled(i, value) ==
    /\ waits[i].pc = "waiting"
    /\ waits[i].task = "pending"
    /\ waits' = [waits EXCEPT ![i].task = "fulfilled", ![i].taskResult = value]
    /\ UNCHANGED <<updateVars, registryVars, packageVars, envVars, myExtensions, otherExtensions, extensionCache, lookups, pending, now>>

taskRejected(i) ==
    /\ waits[i].pc = "waiting"
    /\ waits[i].task = "pending"
    /\ waits' = [waits EXCEPT ![i].task = "rejected"]
    /\ UNCHANGED <<updateVars, registryVars, packageVars, envVars, myExtensions, otherExtensions, extensionCache, lookups, pending, now>>

\* Time passes until the next armed timer is due.
Deadline(w) == w.start + w.timeout
DueTimes == {Deadline(waits[i]) : i \in {j \in Waits : waits[j].timer /\ Deadline(waits[j]) > now}}

advanceTime ==
    /\ DueTimes # {}
    /\ ~MicrotasksPending
    /\ now' = CHOOSE t \in DueTimes : \A u \in DueTimes : t <= u
    /\ UNCHANGED <<updateVars, registryVars, packageVars, envVars, myExtensions, otherExtensions, extensionCache, lookups, pending, waits>>

\* The timer of setTimeout(finished, timeout) expires: finished() runs.
timerFired(i) ==
    /\ waits[i].timer
    /\ now >= Deadline(waits[i])
    /\ ~MicrotasksPending
    /\ waits' = [waits EXCEPT ![i] = finished(@)]
    /\ UNCHANGED <<updateVars, registryVars, packageVars, envVars, myExtensions, otherExtensions, extensionCache, lookups, pending, now>>

\* Mutant: Promise.race() in place of Promise.all().
promiseRace(w) ==
    IF w.task = "rejected" THEN "rejected"
    ELSE IF w.task = "fulfilled" \/ w.released THEN "fulfilled"
    ELSE "pending"

\* Mutant: the timeout rejects the wait.
promiseAllTimeoutRejects(w) ==
    IF w.task = "rejected" \/ (w.released /\ ~w.sawEvent) THEN "rejected"
    ELSE IF w.task = "fulfilled" /\ w.released THEN "fulfilled"
    ELSE "pending"

\* Promise.all([task, wait]) is settled: fulfilled once both are, rejected as
\* soon as task is.
promiseAll(w) ==
    IF w.task = "rejected" THEN "rejected"
    ELSE IF w.task = "fulfilled" /\ w.released THEN "fulfilled"
    ELSE "pending"

\* The continuation of waitForExtensionChange(): it returns task's result, or
\* throws what task threw.
waitForExtensionChangeResume(i) ==
    /\ waits[i].pc = "waiting"
    /\ promiseAll(waits[i]) # "pending"
    /\ waits' = [waits EXCEPT ![i] =
            IF promiseAll(@) = "fulfilled"
            THEN [@ EXCEPT !.pc = "resolved", !.result = waits[i].taskResult]
            ELSE [@ EXCEPT !.pc = "rejected"]]
    /\ UNCHANGED <<updateVars, registryVars, packageVars, envVars, myExtensions, otherExtensions, extensionCache, lookups, pending, now>>

(***************************************************************************)
(* Registry.getPackages() and findMatchingPackages()                       *)
(***************************************************************************)
\* Don't try to request any more packages than this. If we get this many
\* results, we're probably talking to a server that doesn't understand
\* pagination.
MAX_RESULTS == 1000

\* What getPackage(result.name) does with a search result: it returns a
\* Package, or throws NotAnExtensionError, VersionMissingError or another error.
Outcomes == {"package", "NotAnExtensionError", "VersionMissingError", "Error"}

\* The outcomes of the packages a server holds, repeated along its results.
Patterns == {<<"package">>,
             <<"package", "NotAnExtensionError">>,
             <<"Error", "package", "VersionMissingError">>}

\* The limit option: small pages, the default of 20 and one that does not
\* divide MAX_RESULTS.
Limits == {2, 20, 30}

\* A search result is the index of its package in the server's results.
getPackage(item) == server.pattern[(item % Len(server.pattern)) + 1]

Min(a, b) == IF a < b THEN a ELSE b

\* npmsearch(query, {...options, from}): the page the server returns.
\*   honest:      the catalogue's items from `from`, at most `limit` of them
\*   ignoresFrom: the whole catalogue, whatever from and limit are
\*   endless:     `limit` items at every offset
npmsearch(srv, lim, offset) ==
    CASE srv.mode = "honest" ->
            [i \in 1..Min(lim, IF srv.catalogue > offset THEN srv.catalogue - offset ELSE 0)
                |-> offset + i - 1]
      [] srv.mode = "ignoresFrom" -> [i \in 1..srv.catalogue |-> i - 1]
      [] srv.mode = "endless" -> [i \in 1..lim |-> offset + i - 1]
      [] OTHER -> <<>>

\* token?.isCancellationRequested
isCancellationRequested == token = "cancelled"

\* Mutant: one more turn of the loop at the cap.
loopConditionInclusive(offset) == offset <= MAX_RESULTS

\* while (from < MAX_RESULTS)
loopCondition(offset) == offset < MAX_RESULTS

\* Mutant: the enablePagination option is not consulted.
breakOnEmptyPage(length) == length = 0

\* if (page.length === 0 || !this.enablePagination) break
breakAfterPage(length) == length = 0 \/ ~enablePagination

\* The statements after the while loop of findMatchingPackages().
warnTooManyResults(offset) == offset >= MAX_RESULTS

\* findMatchingPackages() from the head of its loop to the page it got, or to
\* its end: the loop test, the cancellation test and the search request.
findMatchingPackages ==
    /\ pc = "generator"
    /\ IF loopCondition(from) /\ ~isCancellationRequested
       THEN /\ requests' = requests + 1
            /\ IF server.mode = "error"
               THEN /\ pc' = "failed"
                    /\ UNCHANGED <<page, pageLength>>
               ELSE /\ page' = npmsearch(server, limit, from)
                    /\ pageLength' = Len(npmsearch(server, limit, from))
                    /\ pc' = "consumer"
            /\ UNCHANGED warned
       ELSE /\ pc' = "updateState"
            /\ warned' = warnTooManyResults(from)
            /\ UNCHANGED <<requests, page, pageLength>>
    /\ UNCHANGED <<updateVars, infoVars, packageVars, enablePagination, limit, server, token, from, results, packages>>

\* Mutant: an error other than NotAnExtensionError empties what was collected.
collectResetOnError(pkgs, item) ==
    IF getPackage(item) = "package" THEN Append(pkgs, item)
    ELSE IF getPackage(item) = "NotAnExtensionError" THEN pkgs
    ELSE <<>>

\* try { packages.push(await this.getPackage(result.name)) } catch (ex) { ... }
collect(pkgs, item) ==
    IF getPackage(item) = "package" THEN Append(pkgs, item) ELSE pkgs

\* The body of the for await loop of getPackages() for one yielded result.
processResult ==
    /\ pc = "consumer"
    /\ page # <<>>
    /\ IF isCancellationRequested
       THEN /\ pc' = "updateState"
            /\ UNCHANGED <<page, results, packages>>
       ELSE /\ page' = Tail(page)
            /\ results' = Append(results, Head(page))
            /\ packages' = collect(packages, Head(page))
            /\ UNCHANGED pc
    /\ UNCHANGED <<updateVars, infoVars, packageVars, enablePagination, limit, server, token, from, pageLength, requests, warned>>

\* findMatchingPackages() after the last yield of a page: break, or advance
\* from and go round the loop.
pageDone ==
    /\ pc = "consumer"
    /\ page = <<>>
    /\ IF breakAfterPage(pageLength)
       THEN /\ pc' = "updateState"
            /\ warned' = warnTooManyResults(from)
            /\ UNCHANGED from
       ELSE /\ from' = from + pageLength
            /\ pc' = "generator"
            /\ UNCHANGED warned
    /\ UNCHANGED <<updateVars, infoVars, packageVars, enablePagination, limit, server, token, page, pageLength, requests,
                   results, packages>>

\* await Promise.all(packages.map((pkg) => pkg.updateState())); return packages
updateState ==
    /\ pc = "updateState"
    /\ pc' = "done"
    /\ UNCHANGED <<updateVars, infoVars, packageVars, enablePagination, limit, server, token, from, page, pageLength,
                   requests, results, packages, warned>>

\* The caller cancels the search.
cancel ==
    /\ token = "live"
    /\ pc \in {"generator", "consumer"}
    /\ token' = "cancelled"
    /\ UNCHANGED <<updateVars, infoVars, packageVars, enablePagination, limit, server, from, page, pageLength,
                   requests, results, packages, warned, pc>>

(***************************************************************************)
(* findPackage(registry, extensionId)                                      *)
(***************************************************************************)
\* What registry.getPackage(name, version) does: it returns a Package, or it
\* throws an HTTP error with a statusCode, or an error without one.
RegistryAnswers == {"package", "E404", "E500", "VersionMissingError"}

\* ex.statusCode
statusCode(answer) ==
    CASE answer = "E404" -> 404
      [] answer = "E500" -> 500
      [] OTHER -> 0

\* Extension ids, character by character.
ExtensionIdStrings == {<<"n">>, <<"p", ".", "n">>, <<"p", ".", "n", ".", "x">>, <<".", "n">>, <<"p", ".">>}

\* extensionId.indexOf('.'), counted from 0; -1 when there is no dot.
indexOfDot(extensionId) ==
    IF \E i \in 1..Len(extensionId) : extensionId[i] = "."
    THEN (CHOOSE i \in 1..Len(extensionId) :
            /\ extensionId[i] = "."
            /\ \A j \in 1..(i - 1) : extensionId[j] # ".") - 1
    ELSE -1

\* function stripPublisher(extensionId)
stripPublisher(extensionId) ==
    IF indexOfDot(extensionId) < 0
    THEN extensionId
    ELSE SubSeq(extensionId, indexOfDot(extensionId) + 2, Len(extensionId))

\* Mutant: every error of a registry is taken for 'not here'.
ignoresEveryError(answer) == answer # "package"

\* catch (ex) { if (ex.statusCode === 404) return null; else throw ex; }
ignores404(answer) == statusCode(answer) = 404

\* One turn of the loop of _findPackage(): tryGetPackage() on the next
\* registry, then return its package, go on to the next one, or throw.
tryGetPackage ==
    /\ findPc = "loop"
    /\ Len(findCalls) < Len(findRegistries)
    /\ LET i == Len(findCalls) + 1
           answer == findRegistries[i]
       IN /\ findCalls' = Append(findCalls, [registry |-> i, name |-> findName])
          /\ IF answer = "package"
             THEN /\ findOutcome' = Some([kind |-> "returned", registry |-> i,
                                           name |-> findName, error |-> ""])
                  /\ findPc' = "done"
             ELSE IF ignores404(answer)
             THEN UNCHANGED <<findOutcome, findPc>>
             ELSE /\ findOutcome' = Some([kind |-> "thrown", registry |-> i,
                                           name |-> findName, error |-> answer])
                  /\ findPc' = "done"
    /\ UNCHANGED <<updateVars, infoVars, registryVars, versionVars, providerVars, findRegistries, findExtensionId, findName>>

\* The loop of _findPackage() ran out of registries.
cannotFindExtension ==
    /\ findPc = "loop"
    /\ Len(findCalls) = Len(findRegistries)
    /\ findOutcome' = Some([kind |-> "thrown", registry |-> 0, name |-> findName,
                          error |-> "cannot.find.extension"])
    /\ findPc' = "done"
    /\ UNCHANGED <<updateVars, infoVars, registryVars, versionVars, providerVars, findRegistries, findExtensionId, findName, findCalls>>

(***************************************************************************)
(* RegistryProvider: the registries of the workspace and of the user.      *)
(***************************************************************************)
\* A string query is a sequence of tokens, the space being one of them; an
\* array query is a sequence of such strings.
StringQuery(tokens) == [array |-> FALSE, value |-> tokens]
ArrayQuery(strings) == [array |-> TRUE, value |-> strings]
NoQuery == [array |-> FALSE, value |-> <<>>]

\* Entries of a "registries" list: name, and the options registry, query and
\* enablePagination, each of which may be left out.
Item(name, registry, query, pagination) ==
    [name |-> name, registry |-> registry, query |-> query, enablePagination |-> pagination]

W1 == Item("Workspace Registry 1", "http://ws", NoQuery, Undefined)
W2 == Item("Workspace Registry 2", "http://ws", StringQuery(<<"keywords:test">>), Undefined)
U1 == Item("User Registry", "http://user", NoQuery, Undefined)
U2 == Item("User copy", "http://ws/", StringQuery(<<"*">>), "true")
Q1 == Item("Array query", Undefined, ArrayQuery(<<<<"foo">>, <<"bar">>>>), "false")
Q2 == Item("String query", "", StringQuery(<<"foo", " ", "bar">>), "false")

\* A configuration value: a list of entries, or something assertType() rejects.
Valid(items) == [valid |-> TRUE, registries |-> items]
Invalid == [valid |-> FALSE, registries |-> <<>>]

\* A setting with a well-formed entry and one that is none.
InvalidMixed == [valid |-> FALSE, registries |-> <<U1>>]

UserSettings == {Valid(<<>>), Valid(<<U2, Q2, U1>>), Invalid}
FileContents == {Valid(<<W1, W2>>), Valid(<<Q1, W1, U2>>), Invalid}

\* a.join(' ')
RECURSIVE join(_)
join(strings) ==
    IF strings = <<>> THEN <<>>
    ELSE IF Len(strings) = 1 THEN strings[1]
    ELSE strings[1] \o <<" ">> \o join(Tail(strings))

\* Mutant: queries are compared as they were given.
queryEqualsAsGiven(a, b) == a.array = b.array /\ a.value = b.value

\* function queryEquals(a, b)
queryEquals(a, b) ==
    (IF a.array THEN join(a.value) ELSE a.value) = (IF b.array THEN join(b.value) ELSE b.value)

\* new Registry(extensionInfo, name, source, options)
newRegistry(item, source) ==
    [name |-> item.name,
     source |-> source,
     registry |-> item.registry,
     query |-> IF item.query = NoQuery THEN StringQuery(<<"*">>) ELSE item.query,
     enablePagination |-> IF item.enablePagination = Undefined THEN TRUE
                          ELSE item.enablePagination = "true"]

\* Uri.parse(value).toString(): an http Uri without a path gets the path '/'.
uriToString(value) ==
    CASE value = "http://ws" -> "http://ws/"
      [] value = "http://user" -> "http://user/"
      [] OTHER -> value

\* get uri(): undefined when the registry option is missing or empty.
uri(registry) ==
    IF registry.registry # Undefined /\ registry.registry # ""
    THEN Some(uriToString(registry.registry))
    ELSE None

\* public equals(other: Registry)
equals(this, other) ==
    IF this.enablePagination # other.enablePagination THEN FALSE
    ELSE IF ~queryEquals(this.query, other.query) THEN FALSE
    ELSE IF uri(this) # None /\ uri(other) # None THEN uri(this) = uri(other)
    ELSE uri(this) = None /\ uri(other) = None

\* function dedupeRegistries(registries): reduce() from the left.
RECURSIVE dedupeInto(_, _)
dedupeInto(list, registries) ==
    IF registries = <<>> THEN list
    ELSE dedupeInto(IF \A i \in 1..Len(list) : ~equals(registries[1], list[i])
                    THEN Append(list, registries[1])
                    ELSE list,
                    Tail(registries))

\* Mutant: no registry is dropped.
dedupeNothing(registries) == registries

dedupeRegistries(registries) == dedupeInto(<<>>, registries)

\* The Registry objects built from a list of entries.
buildRegistries(items, source) == [i \in 1..Len(items) |-> newRegistry(items[i], source)]

\* No call has been made.
NoCall == [op |-> "none", name |-> "", calls |-> 0, thrown |-> FALSE, registries |-> <<>>]

\* The folders that can be part of the workspace.
Folders == 1..MaxFolders

\* new FolderRegistryProvider(folder, extensionInfo)
newFolderRegistryProvider(folder) ==
    [folder |-> folder, isStale |-> TRUE, configFile |-> files[folder] # None,
     registries |-> <<>>]

\* The folders the provider has a FolderRegistryProvider for.
ProvidedFolders == {folders[i].folder : i \in 1..Len(folders)}

\* readJSONSync(this.configFile) and assertType() both succeed.
readable(provider) == files[provider.folder] # None /\ files[provider.folder][1].valid

\* FolderRegistryProvider.updateRegistries() throws out of readConfigFile().
updateRegistriesThrows(provider) ==
    provider.isStale /\ provider.configFile /\ ~readable(provider)

\* FolderRegistryProvider.updateRegistries(), with readConfigFile()
updateRegistries(provider) ==
    IF ~provider.isStale THEN provider
    ELSE IF ~provider.configFile
    THEN [provider EXCEPT !.registries = <<>>, !.isStale = FALSE]
    ELSE IF readable(provider)
    THEN [provider EXCEPT
            !.registries = buildRegistries(files[provider.folder][1].registries, "workspace"),
            !.isStale = FALSE]
    ELSE [provider EXCEPT !.registries = <<>>]

\* The first folder whose getRegistries() throws, or 0.
firstThrowingFolder ==
    IF \E i \in 1..Len(folders) : updateRegistriesThrows(folders[i])
    THEN CHOOSE i \in 1..Len(folders) :
            /\ updateRegistriesThrows(folders[i])
            /\ \A j \in 1..(i - 1) : ~updateRegistriesThrows(folders[j])
    ELSE 0

\* RegistryProvider.getUserRegistries() throws out of getUserRegistryConfig().
getUserRegistriesThrows == isStale /\ ~userSetting.valid

RECURSIVE concat(_)
concat(lists) == IF lists = <<>> THEN <<>> ELSE lists[1] \o concat(Tail(lists))

\* What getRegistries() returns, or that it threw.
Returned(registries) == [thrown |-> FALSE, registries |-> registries]
Thrown == [thrown |-> TRUE, registries |-> <<>>]

\* The FolderRegistryProviders after getRegistries() went through them.
updatedFolders ==
    [i \in 1..Len(folders) |->
        IF firstThrowingFolder = 0 \/ i <= firstThrowingFolder
        THEN updateRegistries(folders[i])
        ELSE folders[i]]

\* private updateUserRegistries(), when it does not throw
updateUserRegistries == buildRegistries(userSetting.registries, "user")

\* public getRegistries(): the folders' lists in order, then the user's,
\* each rebuilt when stale, then dedupeRegistries().
getRegistriesValue ==
    IF firstThrowingFolder # 0 \/ getUserRegistriesThrows
    THEN Thrown
    ELSE Returned(dedupeRegistries(
            concat([i \in 1..Len(folders) |-> updatedFolders[i].registries])
            \o (IF isStale THEN updateUserRegistries ELSE userRegistries)))

\* What getRegistries() leaves behind in the providers.
getRegistriesUpdate ==
    /\ folders' = updatedFolders
    /\ IF firstThrowingFolder # 0
       THEN UNCHANGED <<isStale, userRegistries>>
       ELSE IF getUserRegistriesThrows
       THEN userRegistries' = <<>> /\ UNCHANGED isStale
       ELSE /\ userRegistries' = (IF isStale THEN updateUserRegistries ELSE userRegistries)
            /\ isStale' = FALSE

\* A caller calls getRegistries().
getRegistries ==
    /\ getRegistriesUpdate
    /\ lastRegistries' = <<getRegistriesValue, notified>>
    /\ notified' = FALSE
    /\ UNCHANGED <<updateVars, infoVars, registryVars, versionVars, findVars, userSetting, files, watcherEvents,
                   lastCall, settingWrites, uniqueRegistries, uniqueResults, uniquePc>>

\* Mutant: isStale is cleared before the list is rebuilt.
isStaleAfterCallCleared == FALSE

\* getUserRegistries(): isStale when the call is over. The assignment of
\* false is not reached when updateUserRegistries() throws.
isStaleAfterCall == getUserRegistriesThrows

\* A caller calls getUserRegistries().
getUserRegistries ==
    /\ lastCall.calls < MaxCalls
    /\ isStale' = isStaleAfterCall
    /\ userRegistries' = (IF getUserRegistriesThrows THEN <<>>
                          ELSE IF isStale THEN updateUserRegistries
                          ELSE userRegistries)
    /\ lastCall' = [op |-> "getUserRegistries", name |-> "", calls |-> lastCall.calls + 1,
                    thrown |-> getUserRegistriesThrows,
                    registries |-> IF getUserRegistriesThrows THEN <<>> ELSE userRegistries']
    /\ UNCHANGED <<updateVars, infoVars, registryVars, versionVars, findVars, userSetting, files, watcherEvents,
                   folders, notified, lastRegistries, settingWrites, uniqueRegistries, uniqueResults,
                   uniquePc>>

\* Mutant: no registry is taken to have the name.
someNamedNever(list, name) == FALSE

\* userRegistries.some((other) => name === other.name)
someNamed(list, name) == \E i \in 1..Len(list) : list[i].name = name

\* userRegistries.filter((registry) => registry.name !== name)
RECURSIVE filterNamed(_, _)
filterNamed(list, name) ==
    IF list = <<>> THEN <<>>
    ELSE IF Head(list).name # name THEN <<Head(list)>> \o filterNamed(Tail(list), name)
    ELSE filterNamed(Tail(list), name)

\* addUserRegistry() throws: out of getUserRegistryConfig(), or 'registry.exists'.
addUserRegistryThrows(name) ==
    ~userSetting.valid \/ someNamed(userSetting.registries, name)

\* public addUserRegistry(name, registry); the update of the setting is
\* started and not awaited.
addUserRegistry(name, registry) ==
    /\ lastCall.calls < MaxCalls
    /\ settingWrites' =
            IF addUserRegistryThrows(name) THEN settingWrites
            ELSE Append(settingWrites,
                        Append(userSetting.registries, Item(name, registry, NoQuery, Undefined)))
    /\ lastCall' = [op |-> "addUserRegistry", name |-> name, calls |-> lastCall.calls + 1,
                    thrown |-> addUserRegistryThrows(name), registries |-> <<>>]
    /\ UNCHANGED <<updateVars, infoVars, registryVars, versionVars, findVars, userSetting, files, watcherEvents,
                   folders, isStale, userRegistries, notified, lastRegistries, uniqueRegistries,
                   uniqueResults, uniquePc>>

\* removeUserRegistry() throws: out of getUserRegistryConfig(), or
\* 'registry.does.not.exist'.
removeUserRegistryThrows(name) ==
    \/ ~userSetting.valid
    \/ Len(filterNamed(userSetting.registries, name)) = Len(userSetting.registries)

\* public removeUserRegistry(name)
removeUserRegistry(name) ==
    /\ lastCall.calls < MaxCalls
    /\ settingWrites' =
            IF removeUserRegistryThrows(name) THEN settingWrites
            ELSE Append(settingWrites, filterNamed(userSetting.registries, name))
    /\ lastCall' = [op |-> "removeUserRegistry", name |-> name, calls |-> lastCall.calls + 1,
                    thrown |-> removeUserRegistryThrows(name), registries |-> <<>>]
    /\ UNCHANGED <<updateVars, infoVars, registryVars, versionVars, findVars, userSetting, files, watcherEvents,
                   folders, isStale, userRegistries, notified, lastRegistries, uniqueRegistries,
                   uniqueResults, uniquePc>>

\* getConfig().update('registries', ...) takes effect; when it changes the
\* setting, onDidChangeConfiguration() runs.
settingWritten ==
    /\ settingWrites # <<>>
    /\ settingWrites' = Tail(settingWrites)
    /\ userSetting' = Valid(Head(settingWrites))
    /\ IF Valid(Head(settingWrites)) # userSetting
       THEN isStale' = TRUE /\ notified' = TRUE
       ELSE UNCHANGED <<isStale, notified>>
    /\ UNCHANGED <<updateVars, infoVars, registryVars, versionVars, findVars, files, watcherEvents, folders,
                   userRegistries, lastRegistries, lastCall, uniqueRegistries, uniqueResults,
                   uniquePc>>

\* private onDidChangeConfiguration(e), for a change of the registries setting
userSettingChange(value) ==
    /\ value # userSetting
    /\ userSetting' = value
    /\ isStale' = TRUE
    /\ notified' = TRUE
    /\ UNCHANGED <<updateVars, infoVars, registryVars, versionVars, findVars, files, watcherEvents, folders,
                   userRegistries, lastRegistries, lastCall, settingWrites, uniqueRegistries, uniqueResults, uniquePc>>

\* private onDidChangeConfiguration(e), for a change of the channels setting
channelsChange ==
    /\ isStale' = TRUE
    /\ notified' = TRUE
    /\ UNCHANGED <<updateVars, infoVars, registryVars, versionVars, findVars, userSetting, files, watcherEvents, folders,
                   userRegistries, lastRegistries, lastCall, settingWrites, uniqueRegistries, uniqueResults, uniquePc>>

\* A folder's extensions.private.json is created or edited; the folder's
\* file watcher, if there is one, will report it.
fileWrite(folder, content) ==
    /\ watcherEvents[folder] = "none"
    /\ files[folder] # Some(content)
    /\ files' = [files EXCEPT ![folder] = Some(content)]
    /\ watcherEvents' = [watcherEvents EXCEPT ![folder] =
            IF folder \notin ProvidedFolders THEN "none"
            ELSE IF files[folder] = None THEN "create" ELSE "change"]
    /\ UNCHANGED <<updateVars, infoVars, registryVars, versionVars, findVars, userSetting, folders, isStale,
                   userRegistries, notified, lastRegistries, lastCall, settingWrites, uniqueRegistries, uniqueResults,
                   uniquePc>>

\* A folder's extensions.private.json is deleted.
fileDelete(folder) ==
    /\ watcherEvents[folder] = "none"
    /\ files[folder] # None
    /\ files' = [files EXCEPT ![folder] = None]
    /\ watcherEvents' = [watcherEvents EXCEPT ![folder] =
            IF folder \in ProvidedFolders THEN "delete" ELSE "none"]
    /\ UNCHANGED <<updateVars, infoVars, registryVars, versionVars, findVars, userSetting, folders, isStale,
                   userRegistries, notified, lastRegistries, lastCall, settingWrites, uniqueRegistries, uniqueResults,
                   uniquePc>>

\* Mutant: the list read before the change stays in use.
handleConfigChangeKeepsList(provider) == provider

\* private handleConfigChange()
handleConfigChange(provider) == [provider EXCEPT !.isStale = TRUE]

\* The onDidCreate, onDidChange or onDidDelete listener of a folder's file
\* watcher runs, and with it the provider's listener of the folder's event.
configFileWatcher(folder) ==
    /\ watcherEvents[folder] # "none"
    /\ folders' = [i \in 1..Len(folders) |->
            IF folders[i].folder # folder THEN folders[i]
            ELSE handleConfigChange(
                    [folders[i] EXCEPT !.configFile =
                        CASE watcherEvents[folder] = "create" -> TRUE
                          [] watcherEvents[folder] = "delete" -> FALSE
                          [] OTHER -> @])]
    /\ watcherEvents' = [watcherEvents EXCEPT ![folder] = "none"]
    /\ notified' = TRUE
    /\ UNCHANGED <<updateVars, infoVars, registryVars, versionVars, findVars, userSetting, files, isStale,
                   userRegistries, lastRegistries, lastCall, settingWrites, uniqueRegistries, uniqueResults, uniquePc>>

\* private removeFolder(folder), for every folder of `removed`
removeFolders(list, removed) == SelectSeq(list, LAMBDA provider : provider.folder \notin removed)

\* private addFolder(folder), for every folder of `added` in order
RECURSIVE addFolders(_, _)
addFolders(list, added) ==
    IF added = <<>> THEN list
    ELSE addFolders(IF \E i \in 1..Len(list) : list[i].folder = added[1]
                    THEN list
                    ELSE Append(list, newFolderRegistryProvider(added[1])),
                    Tail(added))

\* The sequences without repetition of the members of S.
Orders(S) == {q \in [1..Cardinality(S) -> S] : \A i, j \in 1..Cardinality(S) : q[i] = q[j] => i = j}

\* private onDidChangeWorkspaceFolders(e): folders leave and join the workspace.
onDidChangeWorkspaceFolders(added, removed) ==
    /\ added # <<>> \/ removed # {}
    /\ folders' = addFolders(removeFolders(folders, removed), added)
    /\ watcherEvents' = [f \in Folders |-> IF f \in removed THEN "none" ELSE watcherEvents[f]]
    /\ notified' = TRUE
    /\ UNCHANGED <<updateVars, infoVars, registryVars, versionVars, findVars, userSetting, files, isStale,
                   userRegistries, lastRegistries, lastCall, settingWrites, uniqueRegistries, uniqueResults, uniquePc>>

\* What registry.getPackages() returns: the extension ids the registry's
\* server offers for the registry's query, in search order.
registryPackages(registry) ==
    LET ids == CASE uri(registry) = None -> <<"test.c", "test.a">>
                 [] uri(registry) = Some("http://user/") -> <<"test.b", "test.c">>
                 [] queryEquals(registry.query, StringQuery(<<"*">>)) -> <<"test.a", "test.b">>
                 [] OTHER -> <<"test.b">>
    IN [i \in 1..Len(ids) |-> [extensionId |-> ids[i], registry |-> registry.name]]

\* Mutant: Map.set() that keeps the value a key already has.
mapSetIfAbsent(map, key, value) ==
    IF \E i \in 1..Len(map) : map[i].key = key
    THEN map
    ELSE Append(map, [key |-> key, value |-> value])

\* results.set(key, value) on a Map, which iterates in insertion order
mapSet(map, key, value) ==
    IF \E i \in 1..Len(map) : map[i].key = key
    THEN [i \in 1..Len(map) |-> IF map[i].key = key THEN [key |-> key, value |-> value] ELSE map[i]]
    ELSE Append(map, [key |-> key, value |-> value])

\* for (const pkg of pkgs) results.set(pkg.extensionId, pkg)
RECURSIVE setAll(_, _)
setAll(map, pkgs) ==
    IF pkgs = <<>> THEN map
    ELSE setAll(mapSet(map, pkgs[1].extensionId, pkgs[1]), Tail(pkgs))

\* public async getUniquePackages(), up to its first await
getUniquePackages ==
    /\ uniquePc \in {"idle", "done", "failed"}
    /\ getRegistriesUpdate
    /\ lastRegistries' = <<getRegistriesValue, notified>>
    /\ notified' = FALSE
    /\ uniqueResults' = <<>>
    /\ IF getRegistriesValue.thrown
       THEN uniquePc' = "failed" /\ uniqueRegistries' = <<>>
       ELSE uniquePc' = "loop" /\ uniqueRegistries' = getRegistriesValue.registries
    /\ UNCHANGED <<updateVars, infoVars, registryVars, versionVars, findVars, userSetting, files, watcherEvents,
                   lastCall, settingWrites>>

\* getUniquePackages(): the getPackages() of the next registry has resolved.
uniqueGetPackages ==
    /\ uniquePc = "loop"
    /\ uniqueRegistries # <<>>
    /\ uniqueResults' = setAll(uniqueResults, registryPackages(Head(uniqueRegistries)))
    /\ uniqueRegistries' = Tail(uniqueRegistries)
    /\ UNCHANGED <<updateVars, infoVars, registryVars, versionVars, findVars, userSetting, files, watcherEvents, folders,
                   isStale, userRegistries, notified, lastRegistries, lastCall, settingWrites, uniquePc>>

\* getUniquePackages(): return [...results.values()]
uniqueReturn ==
    /\ uniquePc = "loop"
    /\ uniqueRegistries = <<>>
    /\ uniquePc' = "done"
    /\ UNCHANGED <<updateVars, infoVars, registryVars, versionVars, findVars, userSetting, files, watcherEvents, folders,
                   isStale, userRegistries, notified, lastRegistries, lastCall, settingWrites, uniqueRegistries,
                   uniqueResults>>

(***************************************************************************)
(* Package: the state of an extension package.                             *)
(***************************************************************************)
\* releaseChannel.LATEST
LATEST == "latest"

\* A SemVer object.
SemVer(major, minor, patch, prerelease) ==
    [major |-> major, minor |-> minor, patch |-> patch, prerelease |-> prerelease]

\* manifest.version strings of packages; "next" is no semantic version.
ManifestVersions == {"1.0.0", "1.9.0", "1.10.0", "1.10.0-beta", "next"}

\* semver.parse(manifest.version) ?? new SemVer('0.0.0')
parseVersion(raw) ==
    CASE raw = "1.0.0" -> SemVer(1, 0, 0, <<>>)
      [] raw = "1.9.0" -> SemVer(1, 9, 0, <<>>)
      [] raw = "1.10.0" -> SemVer(1, 10, 0, <<>>)
      [] raw = "1.10.0-beta" -> SemVer(1, 10, 0, <<"beta">>)
      [] raw = "2.0.0-beta.0" -> SemVer(2, 0, 0, <<"beta", "0">>)
      [] OTHER -> SemVer(0, 0, 0, <<>>)

\* The characters of a prerelease identifier.
chars(identifier) ==
    CASE identifier = "beta" -> <<"b", "e", "t", "a">>
      [] identifier = "0" -> <<"0">>
      [] OTHER -> <<>>

\* The decimal digit d as a character.
digit(d) ==
    CASE d = 0 -> "0" [] d = 1 -> "1" [] d = 2 -> "2" [] d = 3 -> "3" [] d = 4 -> "4"
      [] d = 5 -> "5" [] d = 6 -> "6" [] d = 7 -> "7" [] d = 8 -> "8" [] d = 9 -> "9"

\* A number as the string of its decimal digits.
RECURSIVE digits(_)
digits(n) == IF n < 10 THEN <<digit(n)>> ELSE digits(n \div 10) \o <<digit(n % 10)>>

\* The prerelease identifiers joined with dots.
RECURSIVE joinIdentifiers(_)
joinIdentifiers(prerelease) ==
    IF prerelease = <<>> THEN <<>>
    ELSE IF Len(prerelease) = 1 THEN chars(prerelease[1])
    ELSE chars(prerelease[1]) \o <<".">> \o joinIdentifiers(Tail(prerelease))

\* SemVer.toString(): the string the object converts to, as its characters.
toString(v) ==
    digits(v.major) \o <<".">> \o digits(v.minor) \o <<".">> \o digits(v.patch)
        \o (IF v.prerelease = <<>> THEN <<>> ELSE <<"-">> \o joinIdentifiers(v.prerelease))

\* The UTF-16 code unit of a character.
codeUnit(c) ==
    CASE c = "-" -> 45 [] c = "." -> 46
      [] c = "0" -> 48 [] c = "1" -> 49 [] c = "2" -> 50 [] c = "3" -> 51 [] c = "4" -> 52
      [] c = "5" -> 53 [] c = "6" -> 54 [] c = "7" -> 55 [] c = "8" -> 56 [] c = "9" -> 57
      [] c = "a" -> 97 [] c = "b" -> 98 [] c = "e" -> 101 [] c = "t" -> 116

\* a < b for strings: by the first code unit that differs; a proper prefix is less.
RECURSIVE lessThan(_, _)
lessThan(a, b) ==
    IF b = <<>> THEN FALSE
    ELSE IF a = <<>> THEN TRUE
    ELSE IF Head(a) = Head(b) THEN lessThan(Tail(a), Tail(b))
    ELSE codeUnit(Head(a)) < codeUnit(Head(b))

\* x > y for two SemVer objects: both are converted to primitives, which
\* are their strings, and the strings are compared.
greaterThan(x, y) == lessThan(toString(y), toString(x))

\* os.platform()
platform == "linux"

\* Result<T>
success(value) == [type |-> "success", value |-> value, error |-> Undefined]
error(message) == [type |-> "error", value |-> Undefined, error |-> message]

\* file.endsWith('.vsix')
endsWithVsix(file) == file \in {"extension.vsix", "default.vsix", "windows.vsix"}

\* The first file of the list that ends with .vsix, if any.
RECURSIVE firstVsix(_)
firstVsix(list) ==
    IF list = <<>> THEN None
    ELSE IF endsWithVsix(Head(list)) THEN Some(Head(list))
    ELSE firstVsix(Tail(list))

\* manifest.osSpecificVsix[os.platform()] ?? manifest.osSpecificVsix['default']
osSpecific(table) ==
    IF platform \in DOMAIN table THEN table[platform]
    ELSE IF "default" \in DOMAIN table THEN table["default"]
    ELSE ""

findVsixFile(manifest) ==
    IF manifest.files # None
    THEN IF manifest.osSpecificVsix # None
         THEN IF osSpecific(manifest.osSpecificVsix[1]) # ""
              THEN success(osSpecific(manifest.osSpecificVsix[1]))
              ELSE error("manifest.missing.os.vsix")
         ELSE IF firstVsix(manifest.files[1]) # None
              THEN success(firstVsix(manifest.files[1])[1])
              ELSE error("manifest.missing.vsix")
    ELSE error("manifest.missing.vsix")

valueOrNull(result) == IF result.type = "success" THEN Some(result.value) ELSE None

\* `${publisher}.${name}`.toLowerCase()
formatExtensionId(publisher, name) ==
    CASE publisher = "Test" /\ name = "test" -> "test.test"
      [] publisher = "" /\ name = "test" -> ".test"
      [] publisher = "Unknown" /\ name = "test" -> "unknown.test"

\* An extensionKind value: a string, the old type, or an array of strings.
StringKind(kind) == [array |-> FALSE, value |-> <<kind>>]
ArrayKind(kinds) == [array |-> TRUE, value |-> kinds]

\* toArray(extensionKind), as the set of its elements
toArray(extensionKind) ==
    IF extensionKind.array THEN {extensionKind.value[i] : i \in 1..Len(extensionKind.value)}
    ELSE IF extensionKind.value[1] = "ui" THEN {"ui", "workspace"}
    ELSE {extensionKind.value[1]}

\* getConfiguredExtensionKind(extensionId): the value of the first key of the
\* setting that is the id in lower case.
RECURSIVE getConfiguredExtensionKind(_, _)
getConfiguredExtensionKind(config, extensionId) ==
    IF config = <<>> THEN None
    ELSE IF toLowerCase(Head(config).id) = extensionId THEN Some(Head(config).kind)
    ELSE getConfiguredExtensionKind(Tail(config), extensionId)

\* isNonEmptyArray(obj)
isNonEmptyArray(obj) == obj # None /\ Len(obj[1]) > 0

\* Mutant: the manifest is looked at before the setting.
getExtensionKindManifestFirst(extensionId, manifest) ==
    IF manifest.extensionKind # None THEN toArray(manifest.extensionKind[1])
    ELSE IF getConfiguredExtensionKind(remoteExtensionKind, extensionId) # None
    THEN toArray(getConfiguredExtensionKind(remoteExtensionKind, extensionId)[1])
    ELSE IF manifest.main THEN {"workspace"}
    ELSE IF isNonEmptyArray(manifest.extensionDependencies) \/ isNonEmptyArray(manifest.extensionPack)
    THEN {"works[ace"}
    ELSE {"ui", "workspace"}

\* getExtensionKind(extensionId, manifest)
getExtensionKind(extensionId, manifest) ==
    IF getConfiguredExtensionKind(remoteExtensionKind, extensionId) # None
    THEN toArray(getConfiguredExtensionKind(remoteExtensionKind, extensionId)[1])
    ELSE IF manifest.extensionKind # None THEN toArray(manifest.extensionKind[1])
    ELSE IF manifest.main THEN {"workspace"}
    ELSE IF isNonEmptyArray(manifest.extensionDependencies) \/ isNonEmptyArray(manifest.extensionPack)
    THEN {"works[ace"}
    ELSE {"ui", "workspace"}

\* isUiExtension(extensionId, manifest)
inferUiExtension(extensionId, manifest) ==
    IF ~remoteName THEN TRUE ELSE "ui" \in getExtensionKind(extensionId, manifest)

\* What the files and osSpecificVsix fields of a manifest can be.
FileLists == {None, Some(<<>>), Some(<<"README.md", "extension.vsix">>)}
OsSpecificTables ==
    {None, Some([k \in {"default"} |-> "default.vsix"]), Some([k \in {"win32"} |-> "windows.vsix"]),
     Some([k \in {"linux", "default"} |-> IF k = "linux" THEN "linux.vsix" ELSE "default.vsix"])}

\* Version-specific package manifests of the extension "test".
Manifests ==
    [name : {"test"}, publisher : {Undefined, "", "Test"}, version : ManifestVersions,
     files : FileLists, osSpecificVsix : OsSpecificTables,
     extensionKind : {None, Some(StringKind("ui")), Some(StringKind("workspace"))}, main : BOOLEAN,
     extensionDependencies : {None}, extensionPack : {None}]

\* PackageManifest.is(manifest): name is a string, and the optional fields
\* that are present have their types.
isPackageManifest(manifest) ==
    /\ manifest.name \notin {Undefined, NotAString}
    /\ manifest.publisher # NotAString

\* VSCodeExtensionFields.is(manifest): engines.vscode is a string.
isVSCodeExtensionFields(manifest) ==
    /\ manifest.engines # None
    /\ manifest.engines[1] \notin {Undefined, NotAString}

\* new Package(): the two assertType() calls, in their order.
newPackageThrows(manifest) ==
    IF ~isPackageManifest(manifest) THEN "TypeError"
    ELSE IF ~isVSCodeExtensionFields(manifest) THEN "NotAnExtensionError"
    ELSE "none"

\* Manifests as registries can hold them: name and publisher can be missing or
\* no strings; engines can be missing (None), lack vscode or hold no string.
RawManifests ==
    [name : {Undefined, NotAString, "test"}, publisher : {Undefined, NotAString, "Test"},
     version : {"1.0.0", "1.10.0"}, files : FileLists, osSpecificVsix : {None},
     extensionKind : {None}, main : {TRUE}, extensionDependencies : {None}, extensionPack : {None},
     engines : {None, Some(Undefined), Some(NotAString), Some("1.38.0")}]

\* new Package(registry, manifest, channel)
newPackage(manifest, channel) ==
    [name |-> manifest.name,
     channel |-> channel,
     isPublisherValid |-> manifest.publisher \notin {Undefined, ""},
     publisher |-> IF manifest.publisher = Undefined THEN "Unknown" ELSE manifest.publisher,
     extensionId |-> formatExtensionId(
         IF manifest.publisher = Undefined THEN "Unknown" ELSE manifest.publisher, manifest.name),
     version |-> parseVersion(manifest.version),
     isUiExtension |-> inferUiExtension(
         formatExtensionId(IF manifest.publisher = Undefined THEN "Unknown" ELSE manifest.publisher,
                           manifest.name),
         manifest),
     vsixFile |-> findVsixFile(manifest),
     isInstalled |-> FALSE,
     installedVersion |-> None,
     installedExtensionKind |-> None]

\* ExtensionInfo objects getExtension() can answer with.
ExtensionInfos ==
    [extensionKind : {UI, Workspace}, version : {parseVersion(raw) : raw \in ManifestVersions}]

\* Mutant: where the extension is installed is not looked at.
isUiExtensionInferred(this) == this.isUiExtension

\* get isUiExtension()
isUiExtension(this) ==
    IF this.installedExtensionKind # None
    THEN this.installedExtensionKind[1] = UI
    ELSE this.isUiExtension

\* get isUpdateAvailable()
isUpdateAvailable(this) ==
    /\ this.installedVersion # None
    /\ greaterThan(this.version, this.installedVersion[1])

\* get vsixFile(); and whether its value is truthy, as get state() asks.
vsixFile(this) == valueOrNull(this.vsixFile)

\* Mutant: a package without .vsix file passes.
hasVsixFileAlways(this) == TRUE

hasVsixFile(this) == vsixFile(this) # None /\ vsixFile(this) # Some("")

\* get state()
state(this) ==
    IF this.isPublisherValid /\ hasVsixFile(this)
    THEN IF isUpdateAvailable(this) THEN "update"
         ELSE IF this.isInstalled
              THEN IF this.channel # LATEST THEN "installed.prerelease"
                   ELSE IF isUiExtension(this) THEN "installed" ELSE "installed.remote"
              ELSE "available"
    ELSE "invalid"

\* new Package(registry, manifest): the constructor throws or builds the object.
construct ==
    /\ packageManifest # None
    /\ pkg = None
    /\ constructorError = "none"
    /\ constructorError' = newPackageThrows(packageManifest[1])
    /\ pkg' = IF newPackageThrows(packageManifest[1]) = "none"
              THEN Some(newPackage(packageManifest[1], LATEST))
              ELSE None
    /\ UNCHANGED <<updateVars, infoVars, registryVars, findVars, providerVars, getPackageVars, packageManifest,
                   installed, uninstalled, updated, didUpdate>>

\* Mutant: an extension that is gone keeps the kind it was installed with.
packageUpdateStateKeepsKind ==
    /\ pkg # None
    /\ ~updated
    /\ updated' = TRUE
    /\ pkg' = IF installed # None
              THEN Some([pkg[1] EXCEPT !.isInstalled = TRUE,
                                       !.installedExtensionKind = Some(installed[1].extensionKind),
                                       !.installedVersion = Some(installed[1].version)])
              ELSE Some([pkg[1] EXCEPT !.isInstalled = FALSE,
                                       !.installedVersion = None])
    /\ UNCHANGED <<updateVars, infoVars, registryVars, findVars, providerVars, getPackageVars, packageManifest,
                   constructorError, installed, uninstalled, didUpdate>>

\* Package.updateState(): getExtension() answers with the installed extension.
packageUpdateState ==
    /\ pkg # None
    /\ ~updated
    /\ updated' = TRUE
    /\ pkg' = IF installed # None
              THEN Some([pkg[1] EXCEPT !.isInstalled = TRUE,
                                       !.installedExtensionKind = Some(installed[1].extensionKind),
                                       !.installedVersion = Some(installed[1].version)])
              ELSE Some([pkg[1] EXCEPT !.isInstalled = FALSE,
                                       !.installedExtensionKind = None,
                                       !.installedVersion = None])
    /\ UNCHANGED <<updateVars, infoVars, registryVars, findVars, providerVars, getPackageVars, packageManifest, constructorError, installed, uninstalled, didUpdate>>

\* The extension is uninstalled after pkg.updateState() had found it, before
\* anyone asks didExtensionUpdate(); the package is stale until updateState()
\* runs again.
uninstall ==
    /\ pkg # None
    /\ updated
    /\ installed # None
    /\ didUpdate = None
    /\ installed' = None
    /\ uninstalled' = TRUE
    /\ updated' = FALSE
    /\ UNCHANGED <<updateVars, infoVars, registryVars, findVars, providerVars, getPackageVars, packageManifest,
                   constructorError, pkg, didUpdate>>

\* UpdateChecker.getPackagesWithUpdates(), once getUniquePackages() has
\* answered with the package, its state updated:
\* packages.filter((pkg) => pkg.isUpdateAvailable)
getPackagesWithUpdates ==
    /\ pkg # None
    /\ updated
    /\ updates = None
    /\ updates' = Some(IF isUpdateAvailable(pkg[1]) THEN <<pkg[1].extensionId>> ELSE <<>>)
    /\ UNCHANGED <<infoVars, registryVars, packageVars, checkerVars, firings, commandVars>>

(***************************************************************************)
(* UpdateChecker: the timers of the automatic update check.                *)
(***************************************************************************)
DEFAULT_INTERVAL_S == 3600

\* The bounds on the timers armed and on the checks started.
MaxHandles == 3
MaxChecks == 2

\* getUpdateIntervalMS(): the setting, or its default, in milliseconds.
getUpdateIntervalMS(setting) ==
    (IF setting = None THEN DEFAULT_INTERVAL_S ELSE setting[1]) * 1000

\* get isAutomaticUpdateEnabled(), for a value of this.intervalMS
isAutomaticUpdateEnabled(ms) == ms > 0

\* Mutant: the timer is not cleared.
globalClearIntervalForgotten(armed, handle) == armed

\* global.clearTimeout(handle), global.clearInterval(handle): the armed
\* timers without the one of the handle, if there is a handle.
globalClearInterval(armed, handle) ==
    IF handle = None THEN armed ELSE {t \in armed : t.handle # handle[1]}

\* private setAutomaticCheckInterval(), on the interval ms: the armed timers
\* and this.checkInterval after it.
timersAfterSet(ms) ==
    IF isAutomaticUpdateEnabled(ms)
    THEN globalClearInterval(timers, checkInterval)
            \cup {[handle |-> handles + 1, kind |-> "interval"]}
    ELSE globalClearInterval(timers, checkInterval)
checkIntervalAfterSet(ms) ==
    IF isAutomaticUpdateEnabled(ms) THEN Some(handles + 1) ELSE checkInterval
handlesAfterSet(ms) ==
    IF isAutomaticUpdateEnabled(ms) THEN handles + 1 ELSE handles

\* The frame of the UpdateChecker's actions.
CheckerFrame == UNCHANGED <<infoVars, registryVars, packageVars, updates, firings, commandVars>>

\* The privateExtensions.updateCheckInterval setting changes;
\* onDidChangeConfiguration(e) runs while the checker listens.
updateCheckIntervalChange(setting) ==
    /\ setting # updateCheckInterval
    /\ handles < MaxHandles
    /\ updateCheckInterval' = setting
    /\ IF listening
       THEN /\ intervalMS' = getUpdateIntervalMS(setting)
            /\ timers' = timersAfterSet(getUpdateIntervalMS(setting))
            /\ checkInterval' = checkIntervalAfterSet(getUpdateIntervalMS(setting))
            /\ handles' = handlesAfterSet(getUpdateIntervalMS(setting))
       ELSE UNCHANGED <<intervalMS, timers, checkInterval, handles>>
    /\ UNCHANGED <<initTimeout, listening, checks>>
    /\ CheckerFrame

\* The start-up timer fires: the callback given to global.setTimeout().
initTimeoutFired ==
    /\ \E t \in timers : t.kind = "timeout"
    /\ checks < MaxChecks
    /\ handles < MaxHandles
    /\ initTimeout' = None
    /\ checks' = checks + 1
    /\ timers' = {t \in timersAfterSet(intervalMS) : t.kind # "timeout"}
    /\ checkInterval' = checkIntervalAfterSet(intervalMS)
    /\ handles' = handlesAfterSet(intervalMS)
    /\ UNCHANGED <<updateCheckInterval, intervalMS, listening>>
    /\ CheckerFrame

\* A periodic timer fires: the callback given to global.setInterval().
checkIntervalFired ==
    /\ \E t \in timers : t.kind = "interval"
    /\ checks < MaxChecks
    /\ checks' = checks + 1
    /\ UNCHANGED <<updateCheckInterval, intervalMS, initTimeout, checkInterval, listening,
                   timers, handles>>
    /\ CheckerFrame

\* public dispose()
disposeChecker ==
    /\ listening
    /\ listening' = FALSE
    /\ timers' = globalClearInterval(globalClearInterval(timers, initTimeout), checkInterval)
    /\ initTimeout' = None
    /\ checkInterval' = None
    /\ UNCHANGED <<updateCheckInterval, intervalMS, handles, checks>>
    /\ CheckerFrame

\* Mutant: the version of a missing extension is read, which throws a TypeError.
didExtensionUpdateUnguarded ==
    /\ pkg # None
    /\ didUpdate = None
    /\ didUpdate' = IF installed = None
                    THEN Some([result |-> FALSE, logged |-> FALSE, thrown |-> TRUE])
                    ELSE Some([result |-> greaterThan(installed[1].version, pkg[1].version),
                               logged |-> FALSE, thrown |-> FALSE])
    /\ UNCHANGED <<updateVars, infoVars, registryVars, findVars, providerVars, getPackageVars, packageManifest, constructorError, installed, uninstalled, pkg, updated>>

\* ExtensionInfoService.didExtensionUpdate(pkg)
didExtensionUpdate ==
    /\ pkg # None
    /\ didUpdate = None
    /\ didUpdate' = IF installed = None
                    THEN Some([result |-> FALSE, logged |-> TRUE, thrown |-> FALSE])
                    ELSE Some([result |-> greaterThan(installed[1].version, pkg[1].version),
                               logged |-> FALSE, thrown |-> FALSE])
    /\ UNCHANGED <<updateVars, infoVars, registryVars, findVars, providerVars, getPackageVars, packageManifest, constructorError, installed, uninstalled, pkg, updated>>

(***************************************************************************)
(* UpdateExtensionCommand.execute(pkg)                                     *)
(***************************************************************************)
\* What the extensions API reports of the extension once VS Code has loaded
\* the installed package: the package's version, on the side it ran on before
\* or, newly installed, on the side it is made for.
loaded(this, extension) ==
    Some([extensionKind |-> IF extension # None THEN extension[1].extensionKind
                            ELSE IF this.isUiExtension THEN UI ELSE Workspace,
          version |-> this.version])

CommandFrame ==
    UNCHANGED <<updates, checkerVars, firings, updateAll, reported, infoVars, registryVars, findVars, providerVars,
                getPackageVars, packageManifest, constructorError, pkg, uninstalled, updated, didUpdate>>

\* execute() up to its await: installExtension(pkg) runs installExtensionByPackage(pkg),
\* which throws for a package without .vsix file and otherwise has VS Code
\* install the file; VS Code loads the new version at once (reflected) or only
\* on a reload of the window. waitForExtensionChange() waits for the change.
installExtensionByPackage(reflected) ==
    /\ pkg # None
    /\ updateCommand.pc = "idle"
    /\ IF ~hasVsixFile(pkg[1])
       THEN updateCommand' = [updateCommand EXCEPT !.pc = "rejected"] /\ UNCHANGED installed
       ELSE /\ updateCommand' = [updateCommand EXCEPT !.pc = "waiting"]
            /\ installed' = IF reflected THEN loaded(pkg[1], installed) ELSE installed
    /\ CommandFrame

\* The change event or the timeout releases waitForExtensionChange().
updateCommandReleased ==
    /\ updateCommand.pc = "waiting"
    /\ updateCommand' = [updateCommand EXCEPT !.pc = "released"]
    /\ UNCHANGED installed
    /\ CommandFrame

\* execute() calls this.extensionInfo.didExtensionUpdate(pkg).
updateCommandAsks ==
    /\ updateCommand.pc = "released"
    /\ didExtensionUpdate

\* if (!(await this.extensionInfo.didExtensionUpdate(pkg))) showReloadPrompt(...)
updateCommandResume ==
    /\ updateCommand.pc = "released"
    /\ didUpdate # None
    /\ updateCommand' = [pc |-> "done", prompt |-> ~didUpdate[1].result]
    /\ UNCHANGED installed
    /\ CommandFrame

(***************************************************************************)
(* updateExtensions(extensionInfo, packages)                               *)
(***************************************************************************)
\* The longest list of packages to update.
MaxPackages == 2

\* The extensions of the packages, and the version each package holds.
UpdateIds == {"test.foo", "test.bar", "test.test"}
packageVersion(id) == IF id = "test.bar" THEN "1.0.0" ELSE "1.9.0"

\* What the extensions API can report of an extension.
ReportedVersions == {Undefined, "1.0.0", "1.9.0"}

\* getPackagesWithUpdates() answers with packages of distinct extensions, and
\* updateExtensions() is called with a list that is not empty.
PackageLists ==
    {list \in UNION {[1..n -> UpdateIds] : n \in 1..MaxPackages} :
        \A i, j \in DOMAIN list : i # j => list[i] # list[j]}

\* The repository holds two versions of updateExtensions().
InstallSources == {"part_024", "part_022"}

IdleUpdateAll ==
    [source |-> "part_024", packages |-> <<>>, pc |-> "idle", i |-> 0, installs |-> <<>>,
     cancelled |-> FALSE, prompt |-> FALSE]

\* The result of didExtensionUpdate(pkg) for the package of extension id when
\* the extensions API reports version.
didExtensionUpdateResult(version, id) ==
    /\ version # Undefined
    /\ greaterThan(parseVersion(version), parseVersion(packageVersion(id)))

\* packages.every(callback) with a callback that returns the promise of
\* didExtensionUpdate(pkg): every() tests the promise object, which is truthy
\* whatever it resolves to.
everyPromise(list) == \A i \in DOMAIN list : TRUE

\* Whether showReloadPrompt() is called: `!packages.every(...)` in one version
\* of the file, `packages.every(...)` in the other.
showsReloadPrompt(u) ==
    IF u.source = "part_024" THEN ~everyPromise(u.packages) ELSE everyPromise(u.packages)

\* Mutant: the loop does not look at the cancellation token.
loopContinuesCancelled(u) == u.i <= Len(u.packages)

\* for (const pkg of packages) { if (token.isCancellationRequested) break; ...
loopContinues(u) == u.i <= Len(u.packages) /\ ~u.cancelled

\* One run of updateExtensions() from the top of the loop to its next await:
\* the install of packages[i] is started and waitForExtensionChange() awaited,
\* or the loop is left and the reload prompt shown or not.
iterate(u) ==
    IF loopContinues(u)
    THEN [u EXCEPT !.pc = "awaiting",
                   !.installs = Append(@, [extensionId |-> u.packages[u.i], task |-> "pending",
                                           released |-> FALSE])]
    ELSE [u EXCEPT !.pc = "done", !.prompt = showsReloadPrompt(u)]

UpdateAllFrame ==
    UNCHANGED <<updates, checkerVars, firings, updateCommand, infoVars, registryVars, packageVars>>

\* updateExtensions(extensionInfo, packages) is called.
updateExtensions(list) ==
    /\ updateAll.pc = "idle"
    /\ updateAll' = iterate([updateAll EXCEPT !.packages = list, !.i = 1])
    /\ UNCHANGED reported
    /\ UpdateAllFrame

\* The user cancels the progress notification.
cancellationRequested ==
    /\ updateAll.pc = "awaiting"
    /\ ~updateAll.cancelled
    /\ updateAll' = [updateAll EXCEPT !.cancelled = TRUE]
    /\ UNCHANGED reported
    /\ UpdateAllFrame

\* installExtension(pkg) resolves: VS Code has installed the .vsix file and has
\* loaded the new version at once (reflected) or will only on a reload.
installExtensionFulfilled(reflected) ==
    /\ updateAll.pc = "awaiting"
    /\ updateAll.installs[updateAll.i].task = "pending"
    /\ updateAll' = [updateAll EXCEPT !.installs[updateAll.i].task = "fulfilled"]
    /\ reported' = IF reflected
                   THEN [reported EXCEPT ![updateAll.packages[updateAll.i]] =
                                            packageVersion(updateAll.packages[updateAll.i])]
                   ELSE reported
    /\ UpdateAllFrame

\* installExtension(pkg) rejects (no .vsix file, a failed download): Promise.all
\* and with it updateExtensions() reject.
installExtensionRejected ==
    /\ updateAll.pc = "awaiting"
    /\ updateAll.installs[updateAll.i].task = "pending"
    /\ updateAll' = [updateAll EXCEPT !.installs[updateAll.i].task = "rejected", !.pc = "rejected"]
    /\ UNCHANGED reported
    /\ UpdateAllFrame

\* The change event or the timeout releases the wait of waitForExtensionChange().
updateAllReleased ==
    /\ updateAll.pc = "awaiting"
    /\ ~updateAll.installs[updateAll.i].released
    /\ updateAll' = [updateAll EXCEPT !.installs[updateAll.i].released = TRUE]
    /\ UNCHANGED reported
    /\ UpdateAllFrame

\* Promise.all([task, wait]) has resolved: progress.report(), then the loop
\* goes on with the next package.
updateExtensionsResume ==
    /\ updateAll.pc = "awaiting"
    /\ updateAll.installs[updateAll.i].task = "fulfilled"
    /\ updateAll.installs[updateAll.i].released
    /\ updateAll' = iterate([updateAll EXCEPT !.i = @ + 1])
    /\ UNCHANGED reported
    /\ UpdateAllFrame

(***************************************************************************)
(* Registry.getPackage(): the version of a package for a release channel.  *)
(***************************************************************************)
\* Property names every object inherits from Object.prototype.
ObjectPrototypeKeys == {"constructor", "toString"}

\* The inherited value of such a property, as the string it converts to.
inherited(key) ==
    CASE key = "constructor" -> "function Object() { [native code] }"
      [] key = "toString" -> "function toString() { [native code] }"

\* lookupVersion(): versionOrTag once the dist-tags were consulted. The `in`
\* operator also finds inherited properties.
resolveTag(data, versionOrTag) ==
    IF versionOrTag \in DOMAIN data.distTags THEN data.distTags[versionOrTag]
    ELSE IF versionOrTag \in ObjectPrototypeKeys THEN inherited(versionOrTag)
    ELSE versionOrTag

\* new VersionMissingError(pkg, version)
VersionMissingError(name, version) ==
    [kind |-> "VersionMissingError", pkg |-> name, version |-> version]

\* lookupVersion() throws: metadata.versions has no such property.
lookupVersionThrows(data, name, versionOrTag) ==
    resolveTag(data, versionOrTag) \notin DOMAIN data.versions

\* lookupVersion(metadata, name, versionOrTag), when it returns.
lookupVersion(data, name, versionOrTag) == data.versions[resolveTag(data, versionOrTag)]

\* Mutant: the channels setting is not consulted.
getReleaseChannelDefault(publisher, name) == LATEST

\* getReleaseChannel(publisher, name)
getReleaseChannel(publisher, name) ==
    IF channels # None /\ formatExtensionId(publisher, name) \in DOMAIN channels[1]
    THEN channels[1][formatExtensionId(publisher, name)]
    ELSE LATEST

\* this.equals(other) is called on two registries.
compareRegistries ==
    /\ compared # None
    /\ compared[1].result = None
    /\ compared' = Some([compared[1] EXCEPT
                            !.result = Some(equals(compared[1].this, compared[1].other))])
    /\ UNCHANGED <<updateVars, infoVars, registryVars, findVars, providerVars, metadata, channels, channelWrites,
                   lastSet, downloadDir, downloads, requested, getPackageOutcome, packageManifest,
                   constructorError, pkg, installed, uninstalled, updated, didUpdate>>

\* The bound on the downloadPackage() calls that run.
MaxDownloads == 2
Downloads == 1..MaxDownloads

\* sanitize(): the characters a file name cannot hold are dropped.
sanitize(s) ==
    CASE s = "http://ws" -> "httpws"
      [] s = "http://ws/" -> "httpws"
      [] s = "http://user" -> "httpuser"
      [] OTHER -> s

\* path.join(getNpmDownloadDir(), registryDir, spec)
downloadDest(item, spec) ==
    <<sanitize(IF item.registry # Undefined THEN item.registry ELSE item.name), spec>>

\* No call of downloadPackage() runs.
IdleDownload == [pc |-> "idle", dest |-> <<>>, extracted |-> FALSE]

\* Nothing is downloaded.
NoDownloads ==
    /\ compared = None
    /\ downloadDir = {}
    /\ downloads = [d \in Downloads |-> IdleDownload]

\* The frame of downloadPackage().
DownloadFrame ==
    UNCHANGED <<updateVars, infoVars, registryVars, findVars, providerVars, metadata, channels, channelWrites,
                lastSet, compared, requested, getPackageOutcome, packageManifest, constructorError, pkg,
                installed, uninstalled, updated, didUpdate>>

\* Registry.downloadPackage(packageOrSpec), up to the await of
\* pacote.extract() or, when the destination exists, the return.
downloadPackage(d, item, spec) ==
    /\ downloads[d].pc = "idle"
    /\ downloads' = [downloads EXCEPT ![d] =
            IF downloadDest(item, spec) \in downloadDir
            THEN [pc |-> "returned", dest |-> downloadDest(item, spec), extracted |-> FALSE]
            ELSE [pc |-> "extracting", dest |-> downloadDest(item, spec), extracted |-> TRUE]]
    /\ UNCHANGED downloadDir
    /\ DownloadFrame

\* pacote.extract() creates the destination directory while it runs.
extractCreates(d) ==
    /\ downloads[d].pc = "extracting"
    /\ downloads[d].dest \notin downloadDir
    /\ downloadDir' = downloadDir \cup {downloads[d].dest}
    /\ UNCHANGED downloads
    /\ DownloadFrame

\* pacote.extract() is done and downloadPackage() returns Uri.file(dest).
extractDone(d) ==
    /\ downloads[d].pc = "extracting"
    /\ downloadDir' = downloadDir \cup {downloads[d].dest}
    /\ downloads' = [downloads EXCEPT ![d].pc = "returned"]
    /\ DownloadFrame

\* pacote.extract() rejects and downloadPackage() throws; what it had created
\* stays.
extractFailed(d) ==
    /\ downloads[d].pc = "extracting"
    /\ downloads' = [downloads EXCEPT ![d].pc = "thrown"]
    /\ UNCHANGED downloadDir
    /\ DownloadFrame

\* getReleaseChannel(extensionId)
getReleaseChannelById(extensionId) ==
    IF channels # None /\ extensionId \in DOMAIN channels[1]
    THEN channels[1][extensionId]
    ELSE LATEST

\* No setReleaseChannel() call was made.
NoSet == [calls |-> 0, args |-> <<>>]

\* cloneConfig(getChannelConfig() ?? {})
cloneConfig == IF channels = None THEN <<>> ELSE channels[1]

\* A dictionary without one key.
deleteKey(config, id) ==
    IF DOMAIN config \ {id} = {} THEN <<>>
    ELSE [k \in DOMAIN config \ {id} |-> config[k]]

\* A dictionary with one key set.
setKey(config, id, channel) ==
    [k \in DOMAIN config \cup {id} |-> IF k = id THEN channel ELSE config[k]]

\* Mutant: every channel is stored, 'latest' too.
changedConfigStored(config, id, channel) == setKey(config, id, channel)

\* if (channel === LATEST) delete config[id]; else config[id] = channel;
changedConfig(config, id, channel) ==
    IF channel = LATEST THEN deleteKey(config, id) ELSE setKey(config, id, channel)

\* setReleaseChannel(): the id and the channel taken from the arguments; an
\* absent or empty third argument makes it the two-argument form.
setReleaseChannelId(args) ==
    IF Len(args) = 3 /\ args[3] # "" THEN formatExtensionId(args[1], args[2]) ELSE args[1]
setReleaseChannelChannel(args) ==
    IF Len(args) = 3 /\ args[3] # "" THEN args[3] ELSE args[2]

\* setReleaseChannel(publisherOrId, nameOrChannel, channel?); the update of
\* the setting is started and not awaited.
setReleaseChannel(args) ==
    /\ lastSet.calls < MaxCalls
    /\ lastSet' = [calls |-> lastSet.calls + 1, args |-> args]
    /\ channelWrites' =
            Append(channelWrites,
                   [args |-> args,
                    value |-> changedConfig(cloneConfig, setReleaseChannelId(args),
                                            setReleaseChannelChannel(args))])
    /\ UNCHANGED <<updateVars, infoVars, registryVars, findVars, providerVars, metadata, channels, downloadDir,
                   downloads, compared, requested, getPackageOutcome, packageManifest, constructorError, pkg, installed, uninstalled, updated,
                   didUpdate>>

\* getConfig().update('channels', ...) takes effect; when it changes the
\* setting, onDidChangeConfiguration() runs.
channelWritten ==
    /\ channelWrites # <<>>
    /\ channelWrites' = Tail(channelWrites)
    /\ channels' = Some(Head(channelWrites).value)
    /\ IF channels' # channels
       THEN isStale' = TRUE /\ notified' = TRUE
       ELSE UNCHANGED <<isStale, notified>>
    /\ UNCHANGED <<updateVars, infoVars, registryVars, findVars, userSetting, files, watcherEvents, folders,
                   userRegistries, lastRegistries, lastCall, settingWrites, uniqueRegistries,
                   uniqueResults, uniquePc, metadata, lastSet, downloadDir, downloads, compared,
                   requested,
                   getPackageOutcome,
                   packageManifest, constructorError, pkg, installed, uninstalled, updated, didUpdate>>

\* getPackage(): the version looked up when the caller gave none and the
\* latest version was found.
channelVersion(name) ==
    IF lookupVersion(metadata, name, LATEST).publisher # Undefined
    THEN getReleaseChannel(lookupVersion(metadata, name, LATEST).publisher, name)
    ELSE LATEST

\* Registry.getPackage(name, version)
getPackageByName ==
    /\ getPackageOutcome = None
    /\ requested # None
    /\ LET name == requested[1].name
           given == requested[1].version
       IN  IF given = Undefined /\ lookupVersionThrows(metadata, name, LATEST)
           THEN /\ getPackageOutcome' =
                       Some([kind |-> "thrown",
                             error |-> VersionMissingError(name, resolveTag(metadata, LATEST))])
                /\ UNCHANGED <<packageManifest, pkg>>
           ELSE LET version == IF given = Undefined THEN channelVersion(name) ELSE given
                IN  IF lookupVersionThrows(metadata, name, version)
                    THEN /\ getPackageOutcome' =
                                Some([kind |-> "thrown",
                                      error |-> VersionMissingError(name, resolveTag(metadata, version))])
                         /\ UNCHANGED <<packageManifest, pkg>>
                    ELSE /\ getPackageOutcome' =
                                Some([kind |-> "returned",
                                      error |-> VersionMissingError("", "")])
                         /\ packageManifest' = Some(lookupVersion(metadata, name, version))
                         /\ pkg' = Some(newPackage(lookupVersion(metadata, name, version), version))
    /\ UNCHANGED <<updateVars, infoVars, registryVars, findVars, providerVars, metadata, channels, channelWrites,
                   lastSet, downloadDir, downloads, compared, requested,
                   constructorError, installed, uninstalled, updated, didUpdate>>

\* The manifest a registry holds for a version of the package "test".
manifestOf(version, publisher) ==
    [name |-> "test", publisher |-> publisher, version |-> version,
     files |-> Some(<<"README.md", "extension.vsix">>), osSpecificVsix |-> None,
     extensionKind |-> None, main |-> TRUE, extensionDependencies |-> None,
     extensionPack |-> None]

\* Package metadata a registry can answer with: dist-tags and versions.
TagNames == {LATEST, "insiders"}
TagTargets == {"1.0.0", "2.0.0-beta.0", "3.0.0"}
PublishedVersions == {"1.0.0", "2.0.0-beta.0"}
DistTags == UNION {[S -> TagTargets] : S \in SUBSET TagNames}
Versions ==
    {[v \in S |-> manifestOf(v, p)] : S \in SUBSET PublishedVersions, p \in {"Test", Undefined}}
Metadatas == [distTags : DistTags, versions : Versions]

\* The privateExtensions.channels setting.
ChannelNames == {"insiders", "2.0.0-beta.0", "nightly", "constructor", ""}
ChannelConfigs ==
    {None, Some(<<>>), Some([id \in {"Test.test"} |-> "insiders"])}
        \cup {Some([id \in {"test.test"} |-> c]) : c \in ChannelNames}

\* The version argument of getPackage().
RequestedVersions == {Undefined, LATEST, "insiders", "1.0.0", "9.9.9", "constructor"}

\* No update checker is created.
NoChecker ==
    /\ updateCheckInterval = None
    /\ intervalMS = 0
    /\ initTimeout = None
    /\ checkInterval = None
    /\ listening = FALSE
    /\ timers = {}
    /\ handles = 0
    /\ checks = 0

\* The update checker and the update commands are not used.
NoUpdates ==
    /\ updates = None
    /\ firings = <<>>
    /\ updateCommand = [pc |-> "idle", prompt |-> FALSE]
    /\ updateAll = IdleUpdateAll
    /\ reported = [id \in UpdateIds |-> Undefined]
    /\ NoChecker

\* No package is looked up or held.
NoVersions ==
    /\ metadata = [distTags |-> <<>>, versions |-> <<>>]
    /\ channels = None
    /\ channelWrites = <<>>
    /\ lastSet = NoSet
    /\ NoDownloads
    /\ requested = None
    /\ getPackageOutcome = None
    /\ packageManifest = None
    /\ constructorError = "none"
    /\ pkg = None
    /\ installed = None
    /\ uninstalled = FALSE
    /\ updated = FALSE
    /\ didUpdate = None

(***************************************************************************)
(* Specifications.                                                         *)
(***************************************************************************)
\* What this machine can hold of an extension: nothing, or its version 1.0.0.
Installed(key) == {"1.0.0", Undefined}
Installs == {f \in [Keys -> RawVersions \cup {Undefined}] : \A k \in Keys : f[k] \in Installed(k)}

\* What the other machine can hold: nothing, or either version of test.foo.
InstalledOther(key) == (IF key = "test.foo" THEN RawVersions ELSE {}) \cup {Undefined}
InstallsOther ==
    {f \in [Keys -> RawVersions \cup {Undefined}] : \A k \in Keys : f[k] \in InstalledOther(k)}

InitRegistry ==
    /\ from = 0
    /\ page = <<>>
    /\ pageLength = 0
    /\ requests = 0
    /\ results = <<>>
    /\ packages = <<>>
    /\ warned = FALSE

\* No search is made.
NoRegistry ==
    /\ enablePagination = TRUE
    /\ limit = 20
    /\ server = [mode |-> "honest", catalogue |-> 0, pattern |-> <<"package">>]
    /\ token = "none"
    /\ pc = "idle"
    /\ InitRegistry

\* No findPackage() call is made.
NoFind ==
    /\ findRegistries = <<>>
    /\ findExtensionId = <<>>
    /\ findName = <<>>
    /\ findCalls = <<>>
    /\ findOutcome = None
    /\ findPc = "idle"

\* No workspace folder is open and no registry is configured.
NoProvider ==
    /\ userSetting = Valid(<<>>)
    /\ files = [f \in Folders |-> None]
    /\ watcherEvents = [f \in Folders |-> "none"]
    /\ folders = <<>>
    /\ isStale = TRUE
    /\ userRegistries = <<>>
    /\ notified = FALSE
    /\ lastRegistries = None
    /\ lastCall = NoCall
    /\ settingWrites = <<>>
    /\ uniqueRegistries = <<>>
    /\ uniqueResults = <<>>
    /\ uniquePc = "idle"

NoPackages == NoFind /\ NoProvider /\ NoVersions

InitService ==
    /\ extensionCache = [k \in {} |-> None]
    /\ lookups = [c \in Lookups |-> IdleLookup]
    /\ pending = 0
    /\ waits = [i \in Waits |-> IdleWait]
    /\ now = 0

\* The extension info service is not used.
InitQuiet ==
    /\ remoteName = FALSE
    /\ remoteExtensionKind = <<>>
    /\ helperInstalled = FALSE
    /\ myExtensions = [k \in Keys |-> Undefined]
    /\ otherExtensions = [k \in Keys |-> Undefined]
    /\ InitService

\* The cache: any session, any installed extensions on either machine.
InitCache ==
    /\ NoPackages
    /\ remoteName \in BOOLEAN
    /\ remoteExtensionKind = <<>>
    /\ helperInstalled \in (IF remoteName THEN BOOLEAN ELSE {FALSE})
    /\ myExtensions \in Installs
    /\ otherExtensions \in (IF remoteName THEN InstallsOther ELSE {[k \in Keys |-> Undefined]})
    /\ InitService
    /\ NoRegistry
    /\ NoUpdates

NextCache ==
    \/ \E c \in Lookups, id \in ExtensionIds : getExtension(c, id)
    \/ \E c \in Lookups : remoteHelperAnswer(c)
    \/ \E c \in Lookups : getExtensionResume(c)
    \/ clearCache
    \/ \E k \in Keys : \E v \in Installed(k) : myExtensionsChange(k, v)
    \/ \E k \in Keys : \E v \in InstalledOther(k) : otherExtensionsChange(k, v)
    \/ notifyExtensionsChanged

SpecCache == InitCache /\ [][NextCache]_vars

\* The change wait: the events of one extension on either machine.
WaitKey == "test.foo"
WaitVersion == "1.0.0"

InitWait ==
    /\ NoPackages
    /\ remoteName \in BOOLEAN
    /\ remoteExtensionKind = <<>>
    /\ helperInstalled = remoteName
    /\ myExtensions = [k \in Keys |-> Undefined]
    /\ otherExtensions = [k \in Keys |-> Undefined]
    /\ InitService
    /\ NoRegistry
    /\ NoUpdates

NextWait ==
    \/ \E i \in Waits, t \in Timeouts : waitForExtensionChange(i, t)
    \/ \E i \in Waits, r \in TaskResults : taskFulfilled(i, r)
    \/ \E i \in Waits : taskRejected(i)
    \/ advanceTime
    \/ \E i \in Waits : timerFired(i)
    \/ \E i \in Waits : waitForExtensionChangeResume(i)
    \/ myExtensionsChange(WaitKey, WaitVersion)
    \/ otherExtensionsChange(WaitKey, WaitVersion)
    \/ notifyExtensionsChanged

SpecWait == InitWait /\ [][NextWait]_vars

\* Time passes, due timers fire and settled promises run their continuations.
FairWait ==
    /\ WF_vars(advanceTime)
    /\ \A i \in Waits : WF_vars(timerFired(i))
    /\ \A i \in Waits : WF_vars(waitForExtensionChangeResume(i))

SpecWaitFair == SpecWait /\ FairWait

\* One getPackages() call against a registry server of any behaviour.
Servers ==
    {[mode |-> m, catalogue |-> n, pattern |-> p] :
        m \in {"honest", "ignoresFrom"}, n \in 0..MaxCatalogue, p \in Patterns}
    \cup {[mode |-> m, catalogue |-> 0, pattern |-> p] : m \in {"endless", "error"}, p \in Patterns}

InitSearch ==
    /\ NoPackages
    /\ enablePagination \in BOOLEAN
    /\ limit \in Limits
    /\ server \in Servers
    /\ token \in {"none", "live"}
    /\ pc = "generator"
    /\ InitRegistry
    /\ remoteName = FALSE
    /\ remoteExtensionKind = <<>>
    /\ helperInstalled = FALSE
    /\ myExtensions = [k \in Keys |-> Undefined]
    /\ otherExtensions = [k \in Keys |-> Undefined]
    /\ InitService
    /\ NoUpdates

NextSearch ==
    \/ findMatchingPackages
    \/ processResult
    \/ pageDone
    \/ updateState
    \/ cancel

SpecSearch == InitSearch /\ [][NextSearch]_vars

\* The search runs on: requests are answered and continuations run.
FairSearch == WF_vars(findMatchingPackages \/ processResult \/ pageDone \/ updateState)

SpecSearchFair == SpecSearch /\ FairSearch

\* Sequences over S of length at most n.
SeqsUpTo(S, n) == UNION {[1..k -> S] : k \in 0..n}

\* One findPackage() call: getRegistries() and stripPublisher() have run.
InitFind ==
    /\ findRegistries \in SeqsUpTo(RegistryAnswers, MaxRegistries)
    /\ findExtensionId \in ExtensionIdStrings
    /\ findName = stripPublisher(findExtensionId)
    /\ findCalls = <<>>
    /\ findOutcome = None
    /\ findPc = "loop"
    /\ InitQuiet
    /\ NoRegistry
    /\ NoProvider
    /\ NoVersions
    /\ NoUpdates

NextFind ==
    \/ tryGetPackage
    \/ cannotFindExtension

SpecFind == InitFind /\ [][NextFind]_vars

\* new RegistryProvider(extensionInfo): a FolderRegistryProvider for each
\* folder of the workspace, whatever the settings and the folders' files are.
InitProvider ==
    /\ userSetting \in UserSettings
    /\ files \in [Folders -> {None} \cup {Some(c) : c \in FileContents}]
    /\ watcherEvents = [f \in Folders |-> "none"]
    /\ \E S \in SUBSET Folders : \E added \in Orders(S) : folders = addFolders(<<>>, added)
    /\ isStale = TRUE
    /\ userRegistries = <<>>
    /\ notified = FALSE
    /\ lastRegistries = None
    /\ lastCall = NoCall
    /\ settingWrites = <<>>
    /\ uniqueRegistries = <<>>
    /\ uniqueResults = <<>>
    /\ uniquePc = "idle"
    /\ NoFind
    /\ NoVersions
    /\ InitQuiet
    /\ NoRegistry
    /\ NoUpdates

NextProvider ==
    \/ getRegistries
    \/ \E value \in UserSettings : userSettingChange(value)
    \/ channelsChange
    \/ \E f \in Folders, c \in FileContents : fileWrite(f, c)
    \/ \E f \in Folders : fileDelete(f)
    \/ \E f \in Folders : configFileWatcher(f)
    \/ \E S \in SUBSET (Folders \ ProvidedFolders), removed \in SUBSET ProvidedFolders :
            \E added \in Orders(S) : onDidChangeWorkspaceFolders(added, removed)

SpecProvider == InitProvider /\ [][NextProvider]_vars

\* Calls of getUserRegistries() under any user setting, valid or not, and
\* changes of the settings between them.
InitUserRegistries ==
    /\ userSetting \in UserSettings \cup {InvalidMixed}
    /\ files = [f \in Folders |-> None]
    /\ watcherEvents = [f \in Folders |-> "none"]
    /\ folders = <<>>
    /\ isStale = TRUE
    /\ userRegistries = <<>>
    /\ notified = FALSE
    /\ lastRegistries = None
    /\ lastCall = NoCall
    /\ settingWrites = <<>>
    /\ uniqueRegistries = <<>>
    /\ uniqueResults = <<>>
    /\ uniquePc = "idle"
    /\ NoFind
    /\ NoVersions
    /\ InitQuiet
    /\ NoRegistry
    /\ NoUpdates

\* The names and the url that addUserRegistry() and removeUserRegistry() get.
RegistryNames == {"User Registry", "New Registry"}
RegistryUrls == {"http://new"}

NextUserRegistries ==
    \/ getUserRegistries
    \/ \E name \in RegistryNames, url \in RegistryUrls : addUserRegistry(name, url)
    \/ \E name \in RegistryNames : removeUserRegistry(name)
    \/ settingWritten
    \/ \E value \in UserSettings \cup {InvalidMixed} : userSettingChange(value)
    \/ channelsChange

SpecUserRegistries == InitUserRegistries /\ [][NextUserRegistries]_vars

\* getUniquePackages() calls, and changes of the user setting meanwhile.
NextUnique ==
    \/ \E value \in UserSettings : userSettingChange(value)
    \/ getUniquePackages
    \/ uniqueGetPackages
    \/ uniqueReturn

SpecUnique == InitProvider /\ [][NextUnique]_vars

\* The arguments of setReleaseChannel().
ChannelKeys == {"test.test", "other.ext"}
SetChannels == {LATEST, "insiders", "1.0.0", ""}
SetArguments ==
    {<<id, c>> : id \in ChannelKeys, c \in SetChannels}
        \cup {<<"Test", "test", c>> : c \in SetChannels}

\* The channels setting, as the user or setReleaseChannel() wrote it, and a
\* provider that listens to its changes.
InitChannels ==
    /\ metadata = [distTags |-> <<>>, versions |-> <<>>]
    /\ channels \in ChannelConfigs
                    \cup {Some([id \in {"other.ext"} |-> LATEST]),
                          Some([id \in ChannelKeys |-> IF id = "test.test" THEN "1.0.0" ELSE LATEST])}
    /\ channelWrites = <<>>
    /\ lastSet = NoSet
    /\ NoDownloads
    /\ requested = None
    /\ getPackageOutcome = None
    /\ packageManifest = None
    /\ constructorError = "none"
    /\ pkg = None
    /\ installed = None
    /\ uninstalled = FALSE
    /\ updated = FALSE
    /\ didUpdate = None
    /\ userSetting = Valid(<<>>)
    /\ files = [f \in Folders |-> None]
    /\ watcherEvents = [f \in Folders |-> "none"]
    /\ folders = <<>>
    /\ isStale = TRUE
    /\ userRegistries = <<>>
    /\ notified = FALSE
    /\ lastRegistries = None
    /\ lastCall = NoCall
    /\ settingWrites = <<>>
    /\ uniqueRegistries = <<>>
    /\ uniqueResults = <<>>
    /\ uniquePc = "idle"
    /\ NoFind
    /\ InitQuiet
    /\ NoRegistry
    /\ NoUpdates

NextChannels ==
    \/ \E args \in SetArguments : setReleaseChannel(args)
    \/ channelWritten

SpecChannels == InitChannels /\ [][NextChannels]_vars

\* The options registries are made with.
RegistryUris == {Undefined, "", "http://ws", "http://ws/", "http://user"}
RegistryQueries ==
    <<NoQuery, StringQuery(<<"*">>), StringQuery(<<"foo">>), StringQuery(<<"foo", " ", "bar">>),
      ArrayQuery(<<<<"foo">>, <<"bar">>>>), ArrayQuery(<<<<"foo", " ", "bar">>>>)>>
RegistryPaginations == {Undefined, "true", "false"}

\* Two registries of any options.
InitEquals ==
    /\ metadata = [distTags |-> <<>>, versions |-> <<>>]
    /\ channels = None
    /\ channelWrites = <<>>
    /\ lastSet = NoSet
    /\ downloadDir = {}
    /\ downloads = [d \in Downloads |-> IdleDownload]
    /\ \E registryA, registryB \in RegistryUris, paginationA, paginationB \in RegistryPaginations,
          a, b \in 1..Len(RegistryQueries) :
            compared =
                Some([this |-> newRegistry(Item("A", registryA, RegistryQueries[a], paginationA), "user"),
                      other |-> newRegistry(Item("B", registryB, RegistryQueries[b], paginationB), "user"),
                      result |-> None])
    /\ requested = None
    /\ getPackageOutcome = None
    /\ packageManifest = None
    /\ constructorError = "none"
    /\ pkg = None
    /\ installed = None
    /\ uninstalled = FALSE
    /\ updated = FALSE
    /\ didUpdate = None
    /\ NoFind
    /\ NoProvider
    /\ InitQuiet
    /\ NoRegistry
    /\ NoUpdates

NextEquals ==
    \/ compareRegistries

SpecEquals == InitEquals /\ [][NextEquals]_vars

\* The package specs downloadPackage() gets.
PackageSpecs == {"test@1.0.0", "test@2.0.0-beta.0"}

\* Calls of downloadPackage() on registries of the example settings, from an
\* empty download directory or one that holds a download.
InitDownload ==
    /\ metadata = [distTags |-> <<>>, versions |-> <<>>]
    /\ channels = None
    /\ channelWrites = <<>>
    /\ lastSet = NoSet
    /\ compared = None
    /\ downloadDir \in {{}, {downloadDest(W1, "test@1.0.0")}}
    /\ downloads = [d \in Downloads |-> IdleDownload]
    /\ requested = None
    /\ getPackageOutcome = None
    /\ packageManifest = None
    /\ constructorError = "none"
    /\ pkg = None
    /\ installed = None
    /\ uninstalled = FALSE
    /\ updated = FALSE
    /\ didUpdate = None
    /\ NoFind
    /\ NoProvider
    /\ InitQuiet
    /\ NoRegistry
    /\ NoUpdates

NextDownload ==
    \/ \E d \in Downloads, item \in {W1, U1, Q1}, spec \in PackageSpecs : downloadPackage(d, item, spec)
    \/ \E d \in Downloads : extractCreates(d)
    \/ \E d \in Downloads : extractDone(d)
    \/ \E d \in Downloads : extractFailed(d)

SpecDownload == InitDownload /\ [][NextDownload]_vars

\* One getPackage() call on any metadata, with any channels setting.
InitGetPackage ==
    /\ metadata \in Metadatas
    /\ channels \in ChannelConfigs
    /\ channelWrites = <<>>
    /\ lastSet = NoSet
    /\ NoDownloads
    /\ requested \in {Some([name |-> "test", version |-> v]) : v \in RequestedVersions}
    /\ getPackageOutcome = None
    /\ packageManifest = None
    /\ constructorError = "none"
    /\ pkg = None
    /\ installed = None
    /\ uninstalled = FALSE
    /\ updated = FALSE
    /\ didUpdate = None
    /\ NoFind
    /\ NoProvider
    /\ InitQuiet
    /\ NoRegistry
    /\ NoUpdates

NextGetPackage ==
    \/ getPackageByName

SpecGetPackage == InitGetPackage /\ [][NextGetPackage]_vars

\* A package of any manifest and channel, and what is installed of it.
InitPackage ==
    /\ remoteName \in BOOLEAN
    /\ remoteExtensionKind = <<>>
    /\ helperInstalled = FALSE
    /\ myExtensions = [k \in Keys |-> Undefined]
    /\ otherExtensions = [k \in Keys |-> Undefined]
    /\ InitService
    /\ \E manifest \in Manifests, channel \in {LATEST, "insiders"} :
            /\ packageManifest = Some(manifest)
            /\ constructorError = "none"
            /\ pkg = Some(newPackage(manifest, channel))
    /\ installed \in {None} \cup {Some(e) : e \in ExtensionInfos}
    /\ uninstalled = FALSE
    /\ updated = FALSE
    /\ didUpdate = None
    /\ metadata = [distTags |-> <<>>, versions |-> <<>>]
    /\ channels = None
    /\ channelWrites = <<>>
    /\ lastSet = NoSet
    /\ NoDownloads
    /\ requested = None
    /\ getPackageOutcome = None
    /\ NoFind
    /\ NoProvider
    /\ NoRegistry
    /\ NoUpdates

\* A Package is constructed from any manifest, and its state is read.
InitConstruct ==
    /\ packageManifest \in {Some(m) : m \in RawManifests}
    /\ constructorError = "none"
    /\ pkg = None
    /\ installed \in {None} \cup {Some(e) : e \in ExtensionInfos}
    /\ uninstalled = FALSE
    /\ updated = FALSE
    /\ didUpdate = None
    /\ metadata = [distTags |-> <<>>, versions |-> <<>>]
    /\ channels = None
    /\ channelWrites = <<>>
    /\ lastSet = NoSet
    /\ NoDownloads
    /\ requested = None
    /\ getPackageOutcome = None
    /\ NoFind
    /\ NoProvider
    /\ InitQuiet
    /\ NoRegistry
    /\ NoUpdates

NextConstruct ==
    \/ construct
    \/ packageUpdateState

SpecConstruct == InitConstruct /\ [][NextConstruct]_vars

\* The remote.extensionKind setting: empty, about another extension, about
\* this one in either letter case, and with both keys.
KindSettings ==
    {<<>>,
     <<[id |-> "other.ext", kind |-> StringKind("workspace")]>>,
     <<[id |-> "test.test", kind |-> StringKind("ui")]>>,
     <<[id |-> "Test.test", kind |-> ArrayKind(<<"workspace">>)]>>,
     <<[id |-> "other.ext", kind |-> ArrayKind(<<"ui">>)],
       [id |-> "Test.test", kind |-> StringKind("workspace")],
       [id |-> "test.test", kind |-> ArrayKind(<<"ui", "workspace">>)]>>}

\* Manifests of the extension Test.test with every way to say where it runs.
KindManifests ==
    [name : {"test"}, publisher : {"Test"}, version : {"1.0.0"},
     files : {Some(<<"README.md", "extension.vsix">>)}, osSpecificVsix : {None},
     extensionKind : {None, Some(StringKind("ui")), Some(StringKind("workspace")),
                      Some(ArrayKind(<<"ui">>)), Some(ArrayKind(<<"workspace">>)),
                      Some(ArrayKind(<<"workspace", "ui">>))},
     main : BOOLEAN,
     extensionDependencies : {None, Some(<<>>), Some(<<"test.dependency">>)},
     extensionPack : {None, Some(<<>>), Some(<<"test.pack1", "test.pack2">>)},
     engines : {Some("1.38.0")}]

\* A package is made of any such manifest under any such setting.
InitInfer ==
    /\ remoteName \in BOOLEAN
    /\ remoteExtensionKind \in KindSettings
    /\ helperInstalled = FALSE
    /\ myExtensions = [k \in Keys |-> Undefined]
    /\ otherExtensions = [k \in Keys |-> Undefined]
    /\ InitService
    /\ packageManifest \in {Some(m) : m \in KindManifests}
    /\ constructorError = "none"
    /\ pkg = None
    /\ installed = None
    /\ uninstalled = FALSE
    /\ updated = FALSE
    /\ didUpdate = None
    /\ metadata = [distTags |-> <<>>, versions |-> <<>>]
    /\ channels = None
    /\ channelWrites = <<>>
    /\ lastSet = NoSet
    /\ NoDownloads
    /\ requested = None
    /\ getPackageOutcome = None
    /\ NoFind
    /\ NoProvider
    /\ NoRegistry
    /\ NoUpdates

NextInfer ==
    \/ construct
    \/ packageUpdateState

SpecInfer == InitInfer /\ [][NextInfer]_vars

\* The extension test.test is installed in some version; the registry
\* publishes it with any dist-tags, and the channels setting names a channel
\* or a version for it.
InitPinned ==
    /\ remoteName = FALSE
    /\ remoteExtensionKind = <<>>
    /\ helperInstalled = FALSE
    /\ myExtensions = [k \in Keys |-> Undefined]
    /\ otherExtensions = [k \in Keys |-> Undefined]
    /\ InitService
    /\ metadata \in {m \in Metadatas : \A v \in DOMAIN m.versions : m.versions[v].publisher = "Test"}
    /\ channels \in {Some([id \in {"test.test"} |-> c]) : c \in {"insiders", "1.0.0", "2.0.0-beta.0"}}
    /\ channelWrites = <<>>
    /\ lastSet = NoSet
    /\ NoDownloads
    /\ requested = Some([name |-> "test", version |-> Undefined])
    /\ getPackageOutcome = None
    /\ packageManifest = None
    /\ constructorError = "none"
    /\ pkg = None
    /\ installed \in {Some(e) : e \in ExtensionInfos}
    /\ uninstalled = FALSE
    /\ updated = FALSE
    /\ didUpdate = None
    /\ NoUpdates
    /\ NoFind
    /\ NoProvider
    /\ NoRegistry

NextPinned ==
    \/ getPackageByName
    \/ packageUpdateState
    \/ getPackagesWithUpdates

SpecPinned == InitPinned /\ [][NextPinned]_vars

\* The values of the privateExtensions.updateCheckInterval setting.
CheckIntervals == {None, Some(0), Some(60), Some(-1)}

\* new UpdateChecker(registryProvider, extensionInfo), under any setting.
InitChecker ==
    /\ updateCheckInterval \in CheckIntervals
    /\ intervalMS = getUpdateIntervalMS(updateCheckInterval)
    /\ listening = TRUE
    /\ initTimeout = (IF isAutomaticUpdateEnabled(intervalMS) THEN Some(1) ELSE None)
    /\ timers = (IF isAutomaticUpdateEnabled(intervalMS)
                 THEN {[handle |-> 1, kind |-> "timeout"]} ELSE {})
    /\ handles = (IF isAutomaticUpdateEnabled(intervalMS) THEN 1 ELSE 0)
    /\ checkInterval = None
    /\ checks = 0
    /\ updates = None
    /\ firings = <<>>
    /\ updateCommand = [pc |-> "idle", prompt |-> FALSE]
    /\ updateAll = IdleUpdateAll
    /\ reported = [id \in UpdateIds |-> Undefined]
    /\ NoPackages
    /\ InitQuiet
    /\ NoRegistry

NextChecker ==
    \/ \E setting \in CheckIntervals : updateCheckIntervalChange(setting)
    \/ initTimeoutFired
    \/ checkIntervalFired
    \/ disposeChecker

SpecChecker == InitChecker /\ [][NextChecker]_vars

NextPackage ==
    \/ packageUpdateState
    \/ uninstall
    \/ didExtensionUpdate

SpecPackage == InitPackage /\ [][NextPackage]_vars

\* UpdateExtensionCommand on a package of any manifest, whatever is installed.
NextUpdateCommand ==
    \/ \E reflected \in BOOLEAN : installExtensionByPackage(reflected)
    \/ updateCommandReleased
    \/ updateCommandAsks
    \/ updateCommandResume

SpecUpdateCommand == InitPackage /\ [][NextUpdateCommand]_vars

\* updateExtensions() of either version of the file, whatever the extensions
\* API reports when it is called.
InitUpdateAll ==
    /\ NoPackages
    /\ InitQuiet
    /\ NoRegistry
    /\ NoChecker
    /\ updates = None
    /\ firings = <<>>
    /\ updateCommand = [pc |-> "idle", prompt |-> FALSE]
    /\ \E source \in InstallSources : updateAll = [IdleUpdateAll EXCEPT !.source = source]
    /\ reported \in [UpdateIds -> ReportedVersions]

NextUpdateAll ==
    \/ \E list \in PackageLists : updateExtensions(list)
    \/ cancellationRequested
    \/ \E reflected \in BOOLEAN : installExtensionFulfilled(reflected)
    \/ installExtensionRejected
    \/ updateAllReleased
    \/ updateExtensionsResume

SpecUpdateAll == InitUpdateAll /\ [][NextUpdateAll]_vars

(***************************************************************************)
(* Claims about waitForExtensionChange().                                  *)
(***************************************************************************)
\* C1: when task completes and the change event never fires, the call still
\* resolves, no earlier than the timeout, with task's own result; the timeout
\* is not an error: the call only rejects when task did. Checked under
\* SpecWaitFair.
C1_TimeoutResolves ==
    /\ [](\A i \in Waits :
            /\ (waits[i].pc = "resolved" /\ ~waits[i].sawEvent) =>
                    /\ now >= waits[i].start + waits[i].timeout
                    /\ waits[i].task = "fulfilled"
                    /\ waits[i].result = waits[i].taskResult
            /\ waits[i].pc = "rejected" => waits[i].task = "rejected")
    /\ \A i \in Waits :
            (waits[i].pc = "waiting" /\ waits[i].task = "fulfilled")
                ~> (waits[i].pc = "resolved")

\* A call released by its timer alone has resolved with task's result.
C1_Witness ==
    \E i \in Waits :
        /\ waits[i].pc = "resolved"
        /\ ~waits[i].sawEvent
        /\ waits[i].timeout = EXTENSION_CHANGE_TIMEOUT_MS
        /\ waits[i].result \in TaskResults

\* C2: a call has resolved only if task has completed and the change event
\* fired since the call began or its timeout elapsed; its value is task's
\* result whichever came first.
C2_ResolvesAfterTaskAndChange ==
    \A i \in Waits :
        waits[i].pc = "resolved" =>
            /\ waits[i].task = "fulfilled"
            /\ waits[i].sawEvent \/ now >= waits[i].start + waits[i].timeout
            /\ waits[i].result = waits[i].taskResult

\* A call released by the change event before its timeout has resolved.
C2_Witness ==
    \E i \in Waits :
        /\ waits[i].pc = "resolved"
        /\ waits[i].sawEvent
        /\ now < waits[i].start + waits[i].timeout
        /\ waits[i].result = "pkgB"

\* C3: once a wait is released its listener is detached and its timer is
\* cancelled, finished() runs at most once per call, and no resolved call
\* keeps a listener on onDidChange.
C3_ListenerAndTimerReleased ==
    \A i \in Waits :
        /\ waits[i].released => ~waits[i].listener /\ ~waits[i].timer
        /\ waits[i].finishedRuns <= 1
        /\ waits[i].pc = "resolved" => ~waits[i].listener

\* A wait released by the event whose timer has since come due, and one
\* released by its timer after which the event fired again.
C3_Witness ==
    \E i \in Waits :
        /\ waits[i].released
        /\ waits[i].finishedRuns = 1
        /\ waits[i].sawEvent
        /\ now >= waits[i].start + waits[i].timeout

(***************************************************************************)
(* Claims about the extension cache.                                       *)
(***************************************************************************)
\* The entries of cache under the given keys, values untouched.
Kept(cache, keys) == [k \in keys |-> cache[k]]

IsOwnKind(entry) == entry # None /\ entry[1].extensionKind = myExtensionKind
IsOtherKind(entry) == entry # None /\ entry[1].extensionKind # myExtensionKind

\* C4: a change event of this machine removes exactly the entries cached as
\* not installed or of the manager's own extension kind; a change event of the
\* other machine removes exactly the entries cached as not installed or of a
\* different kind; every other entry stays as it was.
C4_ChangeEventClearsExactly ==
    [][/\ (/\ lookups' = lookups
           /\ pending' = pending
           /\ \E k \in Keys, v \in RawVersions \cup {Undefined} : myExtensionsChange(k, v))
            => extensionCache' = Kept(extensionCache, {k \in DOMAIN extensionCache : IsOtherKind(extensionCache[k])})
       /\ (pending' < pending /\ notifyExtensionsChanged)
            => extensionCache' = Kept(extensionCache, {k \in DOMAIN extensionCache : IsOwnKind(extensionCache[k])})]_vars

\* The last lookup cached test.bar from this machine and an event of this
\* machine has removed it, while test.foo, cached from the other machine, stays.
C4_Witness ==
    /\ remoteName
    /\ \E c \in Lookups :
        /\ lookups[c].pc = "done"
        /\ toLowerCase(lookups[c].id) = "test.bar"
        /\ IsOwnKind(lookups[c].result)
    /\ DOMAIN extensionCache = {"test.foo"}
    /\ IsOtherKind(extensionCache["test.foo"])

\* A caller makes a call: getExtension() runs up to its first await.
Calls(c) == lookups[c].pc \in {"idle", "done"} /\ lookups'[c] # lookups[c]

\* A call returns to its caller after a query.
Returns(c) == lookups[c].pc \notin {"idle", "done"} /\ lookups'[c].pc = "done"

\* C5: a completed getExtension() leaves its outcome in the cache under the
\* lower-cased id; a later call whose id matches a cached key ignoring case
\* returns the cached outcome, 'not installed' included, at once and without a
\* query of this machine or of the helper; only a change event or clearCache()
\* removes an entry.
C5_CachedOutcomeReused ==
    [][/\ \A c \in Lookups :
            /\ (Calls(c) /\ toLowerCase(lookups'[c].id) \in DOMAIN extensionCache) =>
                    /\ lookups'[c].pc = "done"
                    /\ lookups'[c].hit
                    /\ lookups'[c].result = extensionCache[toLowerCase(lookups'[c].id)]
                    /\ extensionCache' = extensionCache
            /\ Returns(c) =>
                    /\ toLowerCase(lookups[c].id) \in DOMAIN extensionCache'
                    /\ extensionCache'[toLowerCase(lookups[c].id)] = lookups'[c].result
       /\ ~(DOMAIN extensionCache \subseteq DOMAIN extensionCache') =>
            \/ \E k \in Keys, v \in RawVersions \cup {Undefined} : myExtensionsChange(k, v)
            \/ notifyExtensionsChanged
            \/ clearCache]_vars

\* getExtension("Test.Foo") was answered 'not installed' from the cache.
C5_Witness ==
    \E c \in Lookups :
        /\ lookups[c].pc = "done"
        /\ lookups[c].hit
        /\ lookups[c].id = "Test.Foo"
        /\ lookups[c].result = None
        /\ extensionCache["test.foo"] = None

\* C6: once every change event has been handled, a getExtension() answered
\* from the cache returns what an uncached lookup of the current install state
\* returns (this machine first, then the other machine).
C6_UpToDateAfterChange ==
    [][\A c \in Lookups :
        (/\ Calls(c)
         /\ lookups'[c].hit
         /\ pending = 0
         /\ remoteName => helperInstalled
         /\ \A d \in Lookups : lookups[d].pc \in {"idle", "done"})
            => lookups'[c].result = getExtensionNoCache(lookups'[c].id)]_vars

\* C35: a change event of either machine, once it is handled, fires onDidChange
\* exactly once, and the listener that runs in that firing finds a cache
\* without any entry the event invalidated: every entry it can read was in the
\* cache before the event and is one the event keeps.
C35_OneFiringAfterInvalidation ==
    [][/\ (/\ lookups' = lookups
           /\ pending' = pending
           /\ \E k \in Keys, v \in RawVersions \cup {Undefined} : myExtensionsChange(k, v))
            => /\ Len(firings') = 1
               /\ \A k \in DOMAIN firings'[1] :
                    /\ k \in DOMAIN extensionCache
                    /\ ~clearMine(extensionCache[k])
                    /\ firings'[1][k] = extensionCache[k]
       /\ (pending' < pending /\ notifyExtensionsChanged)
            => /\ Len(firings') = 1
               /\ \A k \in DOMAIN firings'[1] :
                    /\ k \in DOMAIN extensionCache
                    /\ ~clearOther(extensionCache[k])
                    /\ firings'[1][k] = extensionCache[k]]_vars

\* test.bar was looked up and cached from this machine; a change event of this
\* machine followed, and the listener of that event found a cache without
\* test.bar, in which the other machine's test.foo was still there.
C35_Witness ==
    /\ remoteName
    /\ \E c \in Lookups :
        /\ lookups[c].pc = "done"
        /\ toLowerCase(lookups[c].id) = "test.bar"
        /\ IsOwnKind(lookups[c].result)
    /\ Len(firings) = 1
    /\ firings[1] = extensionCache
    /\ DOMAIN firings[1] = {"test.foo"}
    /\ IsOtherKind(firings[1]["test.foo"])

\* C36: when UpdateExtensionCommand has installed the package and the wait for
\* the change is over, the reload prompt is shown only if the extensions API
\* does not report the package's version as the installed one; it is not shown
\* when the API already reports that version.
C36_PromptOnlyIfNotReflected ==
    (updateCommand.pc = "done" /\ updateCommand.prompt) =>
        (installed = None \/ installed[1].version # pkg[1].version)

\* C37: when updateExtensions() has run its installs, the reload prompt is
\* shown exactly when didExtensionUpdate() does not report every package of the
\* list as updated.
C37_PromptExactlyWhenNecessary ==
    updateAll.pc = "done" =>
        (updateAll.prompt <=>
            \E i \in DOMAIN updateAll.packages :
                ~didExtensionUpdateResult(reported[updateAll.packages[i]], updateAll.packages[i]))

\* C39: the installs are started in list order, an install is started only
\* when the install before it has completed and its wait has been released,
\* and none is started once cancellation has been requested.
C39_OneAtATimeInOrder ==
    /\ [](\A j \in DOMAIN updateAll.installs :
            /\ updateAll.installs[j].extensionId = updateAll.packages[j]
            /\ j < Len(updateAll.installs) =>
                    /\ updateAll.installs[j].task = "fulfilled"
                    /\ updateAll.installs[j].released)
    /\ [][updateAll.cancelled => Len(updateAll'.installs) = Len(updateAll.installs)]_vars

\* Of two packages the first was installed and its wait released; cancellation
\* was requested meanwhile and the second install was never started.
C39_Witness ==
    /\ updateAll.pc = "done"
    /\ Len(updateAll.packages) = 2
    /\ Len(updateAll.installs) = 1
    /\ updateAll.installs[1].task = "fulfilled"
    /\ updateAll.installs[1].released
    /\ updateAll.cancelled

\* C38: when a lookup that was waiting for its answer returns and every change
\* event has been handled, the entry it leaves in the cache is the install
\* state after the change, so that a later getExtension() of that id, answered
\* from the cache, reflects the state after the change and not the answer
\* obtained before it.
C38_InFlightAnswerNotCached ==
    [][\A c \in Lookups :
        (/\ Returns(c)
         /\ pending = 0
         /\ remoteName => helperInstalled)
            => extensionCache'[toLowerCase(lookups[c].id)] = getExtensionNoCache(lookups[c].id)]_vars

(***************************************************************************)
(* Claims about getPackages().                                             *)
(***************************************************************************)
Finished == pc \in {"done", "failed"}

\* C7: whatever the server does, a server that ignores the offset and always
\* returns its full, non-empty page included, getPackages() terminates, and
\* it makes no request after an empty page or once MAX_RESULTS results have
\* been aggregated, so it makes finitely many. Checked under SpecSearchFair.
C7_SearchTerminates ==
    /\ [][requests' > requests =>
            /\ Len(results) < MAX_RESULTS
            /\ requests > 0 => pageLength # 0]_vars
    /\ [](requests <= MAX_RESULTS)
    /\ <>Finished

\* A search of a server that ignores the offset has finished, having asked
\* for more than one page.
C7_Witness ==
    /\ pc = "done"
    /\ server.mode = "ignoresFrom"
    /\ server.catalogue > 0
    /\ enablePagination
    /\ token # "cancelled"
    /\ requests > 1
    /\ Len(results) >= MAX_RESULTS

\* C8: against a registry that returns pages of `limit` results for ever, an
\* uncancelled paginated getPackages() ends with exactly MAX_RESULTS results
\* and the 'too many results' warning, and the warning is shown only when the
\* cap was hit.
C8_ExactlyMaxResults ==
    /\ (pc = "done" /\ server.mode = "endless" /\ enablePagination /\ token # "cancelled")
            => Len(results) = MAX_RESULTS /\ warned
    /\ warned => Len(results) >= MAX_RESULTS

\* C9: with enablePagination false an uncancelled getPackages() makes exactly
\* one search request, whatever the size of the page it gets, and never more.
C9_OneRequestWithoutPagination ==
    ~enablePagination =>
        /\ requests <= 1
        /\ (Finished /\ token # "cancelled") => requests = 1

\* A search without pagination has finished after one full page of 30.
C9_Witness ==
    /\ ~enablePagination
    /\ pc = "done"
    /\ requests = 1
    /\ pageLength = 30
    /\ Len(results) = 30

IsPackage(item) == getPackage(item) = "package"

\* C10: getPackages() fails only when a search request fails; it returns, in
\* search order, exactly the results getPackage() made a Package of, the
\* results that threw are dropped one by one, and an honest server's whole
\* catalogue is enumerated whatever its packages throw.
C10_PerResultErrorsSkipped ==
    /\ pc = "failed" => server.mode = "error"
    /\ pc \in {"updateState", "done"} => packages = SelectSeq(results, IsPackage)
    /\ (pc = "done" /\ server.mode = "honest" /\ enablePagination /\ token # "cancelled")
            => Len(results) = server.catalogue

\* After a result that threw an Error and before one that threw
\* VersionMissingError, the one Package of the catalogue was returned.
C10_Witness ==
    /\ pc = "done"
    /\ server.mode = "honest"
    /\ server.pattern = <<"Error", "package", "VersionMissingError">>
    /\ results = <<0, 1, 2>>
    /\ packages = <<1>>

(***************************************************************************)
(* Claims about findPackage().                                             *)
(***************************************************************************)
\* The first registry that does not answer 404, or 0 when all do.
FirstNot404 ==
    IF \E i \in 1..Len(findRegistries) : findRegistries[i] # "E404"
    THEN CHOOSE i \in 1..Len(findRegistries) :
            /\ findRegistries[i] # "E404"
            /\ \A j \in 1..(i - 1) : findRegistries[j] = "E404"
    ELSE 0

\* The characters of the id after its first dot, all of them without a dot.
BareName ==
    IF \E i \in 1..Len(findExtensionId) : findExtensionId[i] = "."
    THEN LET d == CHOOSE i \in 1..Len(findExtensionId) :
                    findExtensionId[i] = "." /\ \A j \in 1..(i - 1) : findExtensionId[j] # "."
         IN [k \in 1..(Len(findExtensionId) - d) |-> findExtensionId[d + k]]
    ELSE findExtensionId

\* C11: findPackage() asks the registries in order for the bare name and
\* stops at the first that does not answer 404: its package is returned, or
\* its error is thrown without a call to a later registry; when every registry
\* answers 404 the 'cannot find in known registries' error names the bare name.
C11_FirstRegistryWins ==
    /\ \A k \in 1..Len(findCalls) :
            /\ findCalls[k] = [registry |-> k, name |-> BareName]
            /\ k > 1 => findRegistries[k - 1] = "E404"
    /\ findPc = "done" =>
        /\ findOutcome # None
        /\ findOutcome[1].name = BareName
        /\ IF FirstNot404 = 0
           THEN /\ findOutcome[1].kind = "thrown"
                /\ findOutcome[1].error = "cannot.find.extension"
                /\ Len(findCalls) = Len(findRegistries)
           ELSE /\ Len(findCalls) = FirstNot404
                /\ findOutcome[1].registry = FirstNot404
                /\ findOutcome[1].kind =
                        (IF findRegistries[FirstNot404] = "package" THEN "returned" ELSE "thrown")
                /\ findOutcome[1].kind = "thrown" =>
                        findOutcome[1].error = findRegistries[FirstNot404]

\* The second of three registries threw a 500 after the first answered 404:
\* the error propagated and the third, which has the package, was not asked.
C11_Witness ==
    /\ findPc = "done"
    /\ findRegistries = <<"E404", "E500", "package">>
    /\ findExtensionId = <<"p", ".", "n", ".", "x">>
    /\ findOutcome = Some([kind |-> "thrown", registry |-> 2, name |-> <<"n", ".", "x">>,
                           error |-> "E500"])
    /\ Len(findCalls) = 2

(***************************************************************************)
(* Claims about RegistryProvider.                                          *)
(***************************************************************************)
\* A step of a getRegistries() call.
GetRegistriesStep ==
    /\ ~notified'
    /\ lastRegistries' # None
    /\ userSetting' = userSetting
    /\ files' = files
    /\ watcherEvents' = watcherEvents
    /\ getRegistries

\* The registries the providers hold after a call, workspace folders first.
HeldWorkspace == concat([i \in 1..Len(folders) |-> folders[i].registries])

\* C12: a list returned by getRegistries() holds no two registries that
\* equal each other, holds every workspace registry before every user
\* registry, and represents each registry the providers hold by the first one
\* equal to it, so that a workspace registry wins over an equal user registry.
C12_DedupedWorkspaceFirst ==
    [][(GetRegistriesStep /\ ~lastRegistries'[1].thrown) =>
        LET list == lastRegistries'[1].registries
            held == HeldWorkspace' \o userRegistries'
        IN /\ \A i, j \in 1..Len(list) :
                (i # j) => ~(equals(list[i], list[j]) /\ equals(list[j], list[i]))
           /\ \A i, j \in 1..Len(list) :
                (list[i].source = "workspace" /\ list[j].source = "user") => i < j
           /\ LET first == {k \in 1..Len(held) : \A n \in 1..(k - 1) : ~equals(held[k], held[n])}
              IN /\ Len(list) = Cardinality(first)
                 /\ \A k \in first : \E i \in 1..Len(list) : list[i] = held[k]]_vars

\* The folder's list had two equal registries and the user's list two that
\* equal workspace ones: three of the six registries were returned.
C12_Witness ==
    /\ userSetting = Valid(<<U2, Q2, U1>>)
    /\ lastRegistries # None
    /\ ~lastRegistries[1].thrown
    /\ lastRegistries[1].registries =
            <<newRegistry(Q1, "workspace"), newRegistry(W1, "workspace"), newRegistry(U1, "user")>>

\* The registry offers a package with this extension id.
Offers(registry, id) ==
    \E k \in 1..Len(registryPackages(registry)) : registryPackages(registry)[k].extensionId = id

\* C13: getUniquePackages() returns one package for each extension id that
\* some registry of getRegistries() offers and no other, and the package of an
\* id comes from the last registry of the list that offers it.
C13_LaterRegistryWins ==
    uniquePc = "done" =>
        LET list == lastRegistries[1].registries IN
        /\ \A i, j \in 1..Len(uniqueResults) :
                uniqueResults[i].key = uniqueResults[j].key => i = j
        /\ \A i \in 1..Len(uniqueResults) :
                LET id == uniqueResults[i].key
                    result == uniqueResults[i].value
                IN /\ result.extensionId = id
                   /\ \E r \in 1..Len(list) :
                        /\ Offers(list[r], id)
                        /\ result.registry = list[r].name
                        /\ \A q \in (r + 1)..Len(list) : ~Offers(list[q], id)
        /\ \A r \in 1..Len(list), id \in {"test.a", "test.b", "test.c"} :
                Offers(list[r], id) => \E i \in 1..Len(uniqueResults) : uniqueResults[i].key = id

\* test.b is offered by both workspace registries and by the user registry,
\* and the package returned for it is the user registry's.
C13_Witness ==
    /\ uniquePc = "done"
    /\ Len(lastRegistries[1].registries) = 4
    /\ lastRegistries[1].registries[1].name = "Workspace Registry 1"
    /\ \E i \in 1..Len(uniqueResults) :
        uniqueResults[i] = [key |-> "test.b",
                            value |-> [extensionId |-> "test.b", registry |-> "User Registry"]]

\* The registries of the current configuration: those of the files of the
\* workspace folders, in the order of the folders, then those of the setting.
CurrentRegistries ==
    concat([i \in 1..Len(folders) |->
                IF files[folders[i].folder] = None THEN <<>>
                ELSE buildRegistries(files[folders[i].folder][1].registries, "workspace")])
    \o buildRegistries(userSetting.registries, "user")

\* Every configuration source in use can be read.
CurrentValid ==
    /\ userSetting.valid
    /\ \A i \in 1..Len(folders) :
            files[folders[i].folder] # None => files[folders[i].folder][1].valid

\* The file watcher of a folder of the workspace delivers an event.
WatcherDelivers ==
    \E f \in ProvidedFolders' : watcherEvents[f] # "none" /\ watcherEvents'[f] = "none"

\* C14: onDidChangeRegistries fires on every change of the registries or
\* channels setting, on every file watcher event of a workspace folder and on
\* every change of the workspace folders; and once the changes have been
\* reported, getRegistries() returns the registries of the current
\* configuration, deduplicated, or throws when a source cannot be read.
C14_RebuiltAfterChange ==
    [][/\ (\/ userSetting' # userSetting
           \/ channelsChange
           \/ WatcherDelivers
           \/ ProvidedFolders' # ProvidedFolders) => notified'
       /\ (GetRegistriesStep /\ \A f \in Folders : watcherEvents[f] = "none") =>
            lastRegistries'[1] = (IF CurrentValid
                                  THEN Returned(dedupeRegistries(CurrentRegistries))
                                  ELSE Thrown)]_vars

\* The first getRegistries() after a change returned the registries of a
\* folder file and of a user setting, of which the provider had held others.
C14_Witness ==
    /\ lastRegistries # None
    /\ lastRegistries[2]
    /\ ~lastRegistries[1].thrown
    /\ Len(lastRegistries[1].registries) = 3
    /\ ~notified
    /\ \A f \in Folders : watcherEvents[f] = "none"

(***************************************************************************)
(* Claims about Registry.getPackage().                                     *)
(***************************************************************************)
\* The channel the channels setting gives an extension, 'latest' by default.
ConfiguredChannel(extensionId) ==
    IF channels # None /\ extensionId \in DOMAIN channels[1]
    THEN channels[1][extensionId]
    ELSE "latest"

\* The version a channel or version stands for: the version its dist-tag
\* points to, or else itself.
Resolved(channel) ==
    IF channel \in DOMAIN metadata.distTags THEN metadata.distTags[channel] ELSE channel

\* getPackage() ran without an explicit version.
NoVersionGiven == getPackageOutcome # None /\ requested[1].version = Undefined

\* The metadata of the example: 1.0.0 is tagged latest and 2.0.0-beta.0 is
\* tagged insiders.
ExampleMetadata ==
    /\ metadata.distTags = [t \in TagNames |-> IF t = "latest" THEN "1.0.0" ELSE "2.0.0-beta.0"]
    /\ metadata.versions = [v \in PublishedVersions |-> manifestOf(v, "Test")]

\* C15: the package getPackage(name) returns when no version is given tracks
\* the channel configured for the extension, 'latest' by default, and is the
\* version that channel stands for, a dist-tag first and a literal version
\* otherwise; with 1.0.0 tagged latest and 2.0.0-beta.0 tagged insiders it
\* returns 1.0.0 without an override and 2.0.0-beta.0 with the override insiders.
C15_ResolvesThroughChannel ==
    NoVersionGiven =>
        /\ getPackageOutcome[1].kind = "returned" =>
                /\ pkg[1].channel = ConfiguredChannel(pkg[1].extensionId)
                /\ pkg[1].version = parseVersion(Resolved(pkg[1].channel))
                /\ Resolved(pkg[1].channel) \in DOMAIN metadata.versions
        /\ (ExampleMetadata /\ ConfiguredChannel("test.test") \in {"latest", "insiders"}) =>
                /\ getPackageOutcome[1].kind = "returned"
                /\ pkg[1].version =
                        (IF ConfiguredChannel("test.test") = "insiders"
                         THEN SemVer(2, 0, 0, <<"beta", "0">>)
                         ELSE SemVer(1, 0, 0, <<>>))

\* With the metadata of the example and the override insiders for test.test,
\* getPackage('test') returned 2.0.0-beta.0.
C15_Witness ==
    /\ NoVersionGiven
    /\ ExampleMetadata
    /\ channels = Some([id \in {"test.test"} |-> "insiders"])
    /\ getPackageOutcome[1].kind = "returned"
    /\ pkg[1].channel = "insiders"
    /\ pkg[1].version = SemVer(2, 0, 0, <<"beta", "0">>)

\* The version or channel getPackage() was asked for: the version argument,
\* or without one the channel configured for the extension.
Requested ==
    IF requested[1].version # Undefined THEN requested[1].version
    ELSE ConfiguredChannel("test.test")

\* C16: when the version or channel asked for is neither a dist-tag nor a
\* version of the package, getPackage() throws a VersionMissingError that
\* carries the package name and the version or channel asked for.
C16_MissingVersionNamed ==
    (/\ getPackageOutcome # None
     /\ Requested \notin DOMAIN metadata.distTags
     /\ Requested \notin DOMAIN metadata.versions
     /\ requested[1].version = Undefined =>
            /\ ~lookupVersionThrows(metadata, "test", "latest")
            /\ lookupVersion(metadata, "test", "latest").publisher = "Test") =>
        /\ getPackageOutcome[1].kind = "thrown"
        /\ getPackageOutcome[1].error = VersionMissingError(requested[1].name, Requested)

(***************************************************************************)
(* Claims about Package.state and didExtensionUpdate().                    *)
(***************************************************************************)
\* Precedence of prerelease identifier lists: a proper prefix comes first,
\* otherwise the first identifier that differs decides.
RECURSIVE PrereleasePrecedes(_, _)
PrereleasePrecedes(a, b) ==
    IF b = <<>> THEN FALSE
    ELSE IF a = <<>> THEN TRUE
    ELSE IF Head(a) = Head(b) THEN PrereleasePrecedes(Tail(a), Tail(b))
    ELSE lessThan(chars(Head(a)), chars(Head(b)))

\* Semantic-version order: a is lower than b. Major, minor and patch are
\* compared as numbers, and a prerelease is lower than its release.
Precedes(a, b) ==
    \/ a.major < b.major
    \/ a.major = b.major /\ a.minor < b.minor
    \/ a.major = b.major /\ a.minor = b.minor /\ a.patch < b.patch
    \/ /\ a.major = b.major /\ a.minor = b.minor /\ a.patch = b.patch
       /\ a.prerelease # <<>>
       /\ b.prerelease = <<>> \/ PrereleasePrecedes(a.prerelease, b.prerelease)

\* The manifest names a publisher.
HasPublisher == packageManifest[1].publisher \notin {Undefined, ""}

\* A .vsix file of the package was selected.
VsixSelected == pkg[1].vsixFile.type = "success"

\* The package was built and updateState() has run since.
StateKnown == pkg # None /\ updated

\* C17: for a package with a publisher and a selected .vsix file, the state
\* is UpdateAvailable exactly when the extension is installed and the
\* installed version is lower than the manifest's in semantic-version order,
\* whatever the channel and the side the extension runs on.
C17_UpdateAvailableBySemver ==
    (StateKnown /\ HasPublisher /\ VsixSelected) =>
        (state(pkg[1]) = "update" <=>
            /\ installed # None
            /\ Precedes(installed[1].version, parseVersion(packageManifest[1].version)))

\* C18: the state is Invalid exactly when the manifest names no publisher or
\* no .vsix file was selected, whether updateState() has run or not, whatever
\* is installed and whatever channel is tracked.
C18_InvalidExactly ==
    pkg # None => (state(pkg[1]) = "invalid" <=> ~HasPublisher \/ ~VsixSelected)

\* An installed extension of a higher version and a package tracking
\* insiders whose manifest names no publisher: the state is Invalid.
C18_Witness ==
    /\ StateKnown
    /\ ~HasPublisher
    /\ VsixSelected
    /\ installed # None
    /\ installed[1].version = SemVer(1, 10, 0, <<>>)
    /\ pkg[1].version = SemVer(1, 0, 0, <<>>)
    /\ pkg[1].channel = "insiders"
    /\ state(pkg[1]) = "invalid"

C20_UpdatedBySemver ==
    (didUpdate # None /\ installed # None) =>
        (didUpdate[1].result <=> Precedes(pkg[1].version, installed[1].version))

\* C21: when the extension is not found, didExtensionUpdate(pkg) logs that it
\* is missing and returns false; it does not throw.
C21_MissingReportsFalse ==
    (didUpdate # None /\ installed = None) =>
        /\ ~didUpdate[1].thrown
        /\ didUpdate[1].logged
        /\ ~didUpdate[1].result

\* didExtensionUpdate() ran for a package of which nothing is installed.
C21_Witness ==
    /\ pkg # None
    /\ installed = None
    /\ didUpdate # None
    /\ ~didUpdate[1].result

(***************************************************************************)
(* Claims about new Package().                                             *)
(***************************************************************************)
\* The manifest has no engines.vscode.
LacksEnginesVscode ==
    \/ packageManifest[1].engines = None
    \/ packageManifest[1].engines[1] = Undefined

\* new Package(manifest) has run.
Constructed == pkg # None \/ constructorError # "none"

\* C22: constructing a Package from a manifest without engines.vscode throws
\* NotAnExtensionError, whatever the other fields of the manifest are.
C22_NotAnExtensionError ==
    (Constructed /\ LacksEnginesVscode) => constructorError = "NotAnExtensionError"

\* What the osSpecificVsix map alone selects on this platform: the entry of
\* the platform, else the default entry, else an error.
SelectedByPlatform(table) ==
    IF platform \in DOMAIN table THEN success(table[platform])
    ELSE IF "default" \in DOMAIN table THEN success(table["default"])
    ELSE error("manifest.missing.os.vsix")

\* C23: when the manifest has an osSpecificVsix map, the .vsix file of the
\* package is the map's entry for the platform, else its default entry, else
\* the 'missing .vsix for this platform' error, whatever the files list is
\* and whether there is one.
C23_SelectedByPlatformOnly ==
    (pkg # None /\ packageManifest[1].osSpecificVsix # None) =>
        pkg[1].vsixFile = SelectedByPlatform(packageManifest[1].osSpecificVsix[1])

(***************************************************************************)
(* Claims about the remote helper.                                         *)
(***************************************************************************)
\* The getExtension() call of caller c goes on after the remote helper
\* command failed.
HelperFailed(c) == lookups[c].pc = "rejected" /\ lookups'[c] # lookups[c]

\* C24: in a remote session, when the remote helper command fails,
\* getExtension() returns to its caller with 'not installed', and the failure
\* was logged.
C24_HelperFailureNotInstalled ==
    [][\A c \in Lookups :
        HelperFailed(c) =>
            /\ remoteName
            /\ lookups'[c].pc = "done"
            /\ lookups'[c].result = None
            /\ lookups'[c].logged]_vars

\* A lookup in a remote session without helper has returned 'not installed'
\* after logging the failure.
C24_Witness ==
    /\ remoteName
    /\ ~helperInstalled
    /\ \E c \in Lookups :
        /\ lookups[c].pc = "done"
        /\ lookups[c].logged
        /\ lookups[c].result = None

(***************************************************************************)
(* Claims about the user registries setting.                               *)
(***************************************************************************)
\* A caller has called getUserRegistries().
GetUserRegistriesStep ==
    lastCall'.calls > lastCall.calls /\ lastCall'.op = "getUserRegistries"

\* C25: every getUserRegistries() call made while the user registries
\* setting has a malformed entry throws and leaves the provider without any
\* registry of that setting, its well-formed entries included; this is so
\* for a first call and for every call after it.
C25_MalformedSettingThrows ==
    [][(GetUserRegistriesStep /\ ~userSetting.valid) =>
        /\ lastCall'.thrown
        /\ lastCall'.registries = <<>>
        /\ userRegistries' = <<>>]_vars

\* Two getUserRegistries() calls were made on a setting with a well-formed
\* and a malformed entry that never changed, and the second one threw.
C25_Witness ==
    /\ userSetting = InvalidMixed
    /\ ~notified
    /\ lastCall.op = "getUserRegistries"
    /\ lastCall.calls = 2
    /\ lastCall.thrown
    /\ userRegistries = <<>>

\* The names of a list of registries are all different.
UniqueNames(list) == \A i, j \in 1..Len(list) : list[i].name = list[j].name => i = j

\* A caller has called addUserRegistry() or removeUserRegistry().
EditStep(op) == lastCall'.calls > lastCall.calls /\ lastCall'.op = op

\* C28: addUserRegistry(name, url) throws and writes nothing when the setting
\* has a registry of that name, removeUserRegistry(name) throws and writes
\* nothing when it has none; and the names of the user registries, in the
\* setting and in every value written to it, are all different.
C28_NamesStayUnique ==
    /\ [](/\ userSetting.valid => UniqueNames(userSetting.registries)
          /\ \A i \in 1..Len(settingWrites) : UniqueNames(settingWrites[i]))
    /\ [][/\ (/\ EditStep("addUserRegistry")
              /\ userSetting.valid
              /\ someNamed(userSetting.registries, lastCall'.name)) =>
                (lastCall'.thrown /\ UNCHANGED <<userSetting, settingWrites>>)
          /\ (/\ EditStep("removeUserRegistry")
              /\ userSetting.valid
              /\ ~someNamed(userSetting.registries, lastCall'.name)) =>
                (lastCall'.thrown /\ UNCHANGED <<userSetting, settingWrites>>)]_vars

\* 'New Registry' was added after three others and the setting was written;
\* then a second registry of that name was refused.
C28_Witness ==
    /\ userSetting = Valid(<<U2, Q2, U1, Item("New Registry", "http://new", NoQuery, Undefined)>>)
    /\ settingWrites = <<>>
    /\ lastCall.op = "addUserRegistry"
    /\ lastCall.name = "New Registry"
    /\ lastCall.calls = 2
    /\ lastCall.thrown

\* The keys of a dictionary that hold 'latest'.
LatestKeys(config) == {k \in DOMAIN config : config[k] = LATEST}

\* The channels setting, or the empty dictionary.
ChannelMap == IF channels = None THEN <<>> ELSE channels[1]

\* A write of setReleaseChannel(id, c) is applied to the setting.
WrittenStep == channelWrites # <<>> /\ channelWrites' = Tail(channelWrites)

\* C26: an extension without a key in the channels setting reads as 'latest';
\* once the write of setReleaseChannel(id, c) is applied, getReleaseChannel(id)
\* is c when c is not 'latest', and the key id is gone when c is 'latest';
\* the written dictionary holds 'latest' under no key that did not hold it
\* when setReleaseChannel() read the setting.
C26_ChannelSetAndRead ==
    /\ [](\A id \in ChannelKeys : id \notin DOMAIN ChannelMap => getReleaseChannelById(id) = LATEST)
    /\ [][/\ \A id \in ChannelKeys, c \in SetChannels :
                WrittenStep /\ Head(channelWrites).args = <<id, c>> =>
                    /\ c # LATEST => getReleaseChannelById(id)' = c
                    /\ c = LATEST => id \notin DOMAIN ChannelMap' /\ getReleaseChannelById(id)' = LATEST
          /\ lastSet'.calls > lastSet.calls =>
                LET written == channelWrites'[Len(channelWrites')].value
                IN  /\ LatestKeys(written) \subseteq LatestKeys(ChannelMap)
                    /\ lastSet'.args[1] \notin LatestKeys(written)]_vars

\* 'test.test' was set to 'insiders' and reads so once the write is applied;
\* then it was set to 'latest' and the setting has no key any more.
C26_Witness ==
    /\ lastSet = [calls |-> 2, args |-> <<"test.test", LATEST>>]
    /\ channelWrites = <<>>
    /\ channels = Some(<<>>)
    /\ notified

\* C27: the channel written in the channels setting under a key that is the
\* identifier of the extension in any letter case is the channel of the
\* package getPackage(name) returns when no version is given.
C27_ChannelKeyAnyCase ==
    (NoVersionGiven /\ channels # None /\ getPackageOutcome[1].kind = "returned") =>
        \A key \in DOMAIN channels[1] :
            toLowerCase(key) = pkg[1].extensionId => pkg[1].channel = channels[1][key]

\* C29: of two downloadPackage() calls for the same registry and package
\* spec, at most one extracts into the destination directory.
C29_OneExtracts ==
    \A d, e \in Downloads :
        (d # e /\ downloads[d].pc # "idle" /\ downloads[e].pc # "idle"
              /\ downloads[d].dest = downloads[e].dest) =>
            ~(downloads[d].extracted /\ downloads[e].extracted)

\* The query of a registry as one string: an array query with a space
\* between its strings.
RECURSIVE NormalizedQuery(_, _)
NormalizedQuery(query, n) ==
    IF ~query.array THEN query.value
    ELSE IF n = 0 THEN <<>>
    ELSE IF n = 1 THEN query.value[1]
    ELSE NormalizedQuery(query, n - 1) \o <<" ">> \o query.value[n]

\* Two registries have the same Uri, or neither has one.
SameUrl(a, b) ==
    \/ uri(a) = None /\ uri(b) = None
    \/ uri(a) # None /\ uri(b) # None /\ uri(a)[1] = uri(b)[1]

\* C30: equals() holds of a registry and itself, gives the same answer with
\* the two registries exchanged, is true exactly when the pagination flags
\* are the same, the queries are the same once array queries are joined with
\* spaces, and the Uris are the same or both absent; so a registry with the
\* query ["foo", "bar"] equals one with the query "foo bar".
C30_EqualsByOptions ==
    (compared # None /\ compared[1].result # None) =>
        LET a == compared[1].this
            b == compared[1].other
        IN  /\ compared[1].result[1] =
                    (/\ a.enablePagination = b.enablePagination
                     /\ NormalizedQuery(a.query, Len(a.query.value))
                            = NormalizedQuery(b.query, Len(b.query.value))
                     /\ SameUrl(a, b))
            /\ equals(a, a) /\ equals(b, b)
            /\ equals(b, a) = compared[1].result[1]
            /\ (/\ a.query.array /\ a.query.value = <<<<"foo">>, <<"bar">>>>
                /\ ~b.query.array /\ b.query.value = <<"foo", " ", "bar">>
                /\ a.enablePagination = b.enablePagination
                /\ SameUrl(a, b)) => compared[1].result[1]

\* A registry with the query ["foo", "bar"] was found equal to one with the
\* query "foo bar" whose Uri is written without the final slash.
C30_Witness ==
    /\ compared # None
    /\ compared[1].this.query.array
    /\ compared[1].this.query.value = <<<<"foo">>, <<"bar">>>>
    /\ ~compared[1].other.query.array
    /\ compared[1].other.query.value = <<"foo", " ", "bar">>
    /\ compared[1].this.registry = "http://ws/"
    /\ compared[1].other.registry = "http://ws"
    /\ compared[1].result = Some(TRUE)

\* C31: once updateState() has run, isUiExtension of an installed extension
\* is whether the installed extension runs on the UI side, whatever the
\* manifest says; of an extension that is not installed, also when it was
\* uninstalled since, it is the value inferred from the manifest.
C31_InstalledKindOverrides ==
    StateKnown =>
        isUiExtension(pkg[1]) =
            (IF installed # None THEN installed[1].extensionKind = UI
             ELSE inferUiExtension(pkg[1].extensionId, packageManifest[1]))

\* A package inferred to run in the workspace was installed on the UI side
\* and read so; it was uninstalled, and after updateState() it reads as
\* inferred again.
C31_Witness ==
    /\ StateKnown
    /\ uninstalled
    /\ remoteName
    /\ packageManifest[1].main
    /\ packageManifest[1].extensionKind = None
    /\ ~isUiExtension(pkg[1])

\* The kind the remote.extensionKind setting gives the extension: the value
\* under a key that is its id in any letter case, the first such key.
ConfiguredKind ==
    LET matching == {i \in 1..Len(remoteExtensionKind) :
                        toLowerCase(remoteExtensionKind[i].id) = pkg[1].extensionId}
    IN  IF matching = {} THEN None
        ELSE Some(remoteExtensionKind[CHOOSE i \in matching : \A j \in matching : i <= j].kind)

\* An extensionKind value says the extension can run on the UI side.
SaysUi(kind) == \E i \in 1..Len(kind.value) : kind.value[i] = "ui"

\* C32: in a remote session the inferred isUiExtension of a package follows
\* the remote.extensionKind setting when it names the extension; else the
\* extensionKind of the manifest; else it is workspace when the manifest has
\* a main entry point; else workspace when extensionDependencies or
\* extensionPack is not empty; else UI. Outside a remote session every
\* package is inferred to be a UI extension.
C32_InferredKindPriority ==
    pkg # None =>
        pkg[1].isUiExtension =
            (IF ~remoteName THEN TRUE
             ELSE IF ConfiguredKind # None THEN SaysUi(ConfiguredKind[1])
             ELSE IF packageManifest[1].extensionKind # None
             THEN SaysUi(packageManifest[1].extensionKind[1])
             ELSE IF packageManifest[1].main THEN FALSE
             ELSE IF \/ packageManifest[1].extensionDependencies \notin {None, Some(<<>>)}
                     \/ packageManifest[1].extensionPack \notin {None, Some(<<>>)}
             THEN FALSE
             ELSE TRUE)

\* In a remote session the setting says workspace for the extension, under a
\* key in another letter case, and the manifest says ui: inferred workspace.
C32_Witness ==
    /\ pkg # None
    /\ remoteName
    /\ remoteExtensionKind = <<[id |-> "Test.test", kind |-> ArrayKind(<<"workspace">>)]>>
    /\ packageManifest[1].extensionKind = Some(StringKind("ui"))
    /\ ~pkg[1].isUiExtension

\* The channels setting pins test.test to a version: its value is no dist-tag
\* of the package and is one of its versions.
Pinned ==
    /\ channels # None
    /\ "test.test" \in DOMAIN channels[1]
    /\ channels[1]["test.test"] \notin DOMAIN metadata.distTags
    /\ channels[1]["test.test"] \in DOMAIN metadata.versions

\* C33: the package of an extension pinned to a version through the channels
\* setting is never in state UpdateAvailable and never among the packages
\* getPackagesWithUpdates() returns.
C33_PinnedNeverUpdates ==
    (Pinned /\ StateKnown) =>
        /\ state(pkg[1]) # "update"
        /\ updates # None => updates[1] = <<>>

\* C34: while the privateExtensions.updateCheckInterval setting is 0, no
\* automatic update check is started, also when the setting became 0 after
\* the update checker was created.
C34_DisabledNeverChecks ==
    [][updateCheckInterval = Some(0) => checks' = checks]_vars

\* C40: at every moment at most one periodic timer is armed; once the update
\* checker is disposed no timer is armed, and no automatic check is started.
C40_TimersUnderControl ==
    /\ [](/\ Cardinality({t \in timers : t.kind = "interval"}) <= 1
          /\ ~listening => timers = {})
    /\ [][~listening => checks' = checks]_vars

\* The interval was changed twice and the checker then disposed: the handle
\* of the third timer was given out and nothing is armed.
C40_Witness ==
    /\ ~listening
    /\ handles = 3
    /\ checks > 0
    /\ timers = {}

====
